---- MODULE Spec2Model ----
(***************************************************************************)
(* Model of the verbiage session engine: the conversation log              *)
(* (ConversationManager), the backend adapters of the two applications     *)
(* (the OpenAI one with a primary and a standard dialect, the OpenRouter   *)
(* one with a single HTTP-POST dialect) and the command handlers that      *)
(* drive them.                                                             *)
(***************************************************************************)
EXTENDS Integers, Sequences, FiniteSets, TLC

\* ------------------------------------------------------------------ bounds
MaxLen == 3           \* longest log the actions build
MaxClock == 1         \* last value of the clock
MaxTurns == 3

\* --------------------------------------------------------------- constants
TitleLen == 50        \* title = first 50 characters of the first message
WebLen == 4           \* length of the "/web" marker

\* ------------------------------------------------------------------ values
None == [t |-> "None"]               \* Python's None

Long60 == "0123456789012345678901234567890123456789012345678901234567890"
Long50 == "01234567890123456789012345678901234567890123456789"

Roles == {"user", "assistant", "system"}

\* the message numbers a caller or a command line may give
Indices == -1..(MaxLen + 1)

Source1 == [title |-> "T", url |-> "U"]

\* the keys every message written by add_message carries
MessageKeys == {"role", "content", "timestamp", "tools_used", "sources"}

WellFormedMessage(m) == DOMAIN m = MessageKeys

\* a message without its timestamp (structural comparison)
StripTimestamp(m) == [k \in DOMAIN m \ {"timestamp"} |-> m[k]]

StripTimestamps(msgs) == [i \in 1..Len(msgs) |-> StripTimestamp(msgs[i])]

\* d[key] = value, adding the key when the dict does not have it
SetItem(d, key, value) ==
  [k \in DOMAIN d \cup {key} |-> IF k = key THEN value ELSE d[k]]

\* exceptions: NoExc when nothing was raised
NoExc == [type |-> "", msg |-> ""]

Exc(type, msg) == [type |-> type, msg |-> msg]

\* Python truthiness of the current_conversation attribute
Truthy(cc) == cc # None

VARIABLES
  app,                   \* which application runs: "openai" or "openrouter"
  use_responses_api,     \* config.use_responses_api (openai application)
  auto_save,             \* config.auto_save
  clock,                 \* datetime.now(), in seconds
  turns,                 \* the inputs the run loop has read so far
  current_conversation,  \* ConversationManager.current_conversation
  files,                 \* conversations_dir: id -> document or None
  agents_dir,            \* AgentManager.agents_dir: file name -> agent or None
  current_agent,         \* AgentManager.current_agent
  loop,                  \* the run loop: alive or not, the last input handled
  last                   \* the last operation: its inputs, pre-state, result

vars == <<app, use_responses_api, auto_save, clock, turns, current_conversation,
          files, agents_dir, current_agent, loop, last>>

\* ------------------------------------------------------ ConversationManager
\* the title is the whole first message
create_new_conversation_untruncated(first_message, now) ==
  [id |-> now,
   title |-> first_message,
   messages |-> <<>>,
   created_at |-> now,
   updated_at |-> now]

create_new_conversation(first_message, now) ==
  [id |-> now,
   title |-> IF Len(first_message) > TitleLen
             THEN SubSeq(first_message, 1, TitleLen) ELSE first_message,
   messages |-> <<>>,
   created_at |-> now,
   updated_at |-> now]

\* mutant: a missing conversation is created instead of reported
add_message_creating(cc, role, content, tools_used, sources, now) ==
  LET c == IF ~Truthy(cc) THEN create_new_conversation(content, now) ELSE cc
  IN [raised |-> NoExc,
      cc |-> [c EXCEPT
               !.messages = Append(@, [role |-> role,
                                       content |-> content,
                                       timestamp |-> now,
                                       tools_used |-> tools_used,
                                       sources |-> sources]),
               !.updated_at = now]]

add_message(cc, role, content, tools_used, sources, now) ==
  IF ~Truthy(cc)
  THEN [raised |-> Exc("ValueError", "Aucune conversation active"), cc |-> cc]
  ELSE [raised |-> NoExc,
        cc |-> [cc EXCEPT
                 !.messages = Append(@, [role |-> role,
                                         content |-> content,
                                         timestamp |-> now,
                                         tools_used |-> tools_used,
                                         sources |-> sources]),
                 !.updated_at = now]]

\* mutant: the last message is popped and updated_at is left as it was
delete_last_message_stale(cc, now) ==
  IF ~Truthy(cc) \/ cc.messages = <<>>
  THEN [ret |-> FALSE, cc |-> cc]
  ELSE [ret |-> TRUE,
        cc |-> [cc EXCEPT !.messages = SubSeq(@, 1, Len(@) - 1)]]

delete_last_message(cc, now) ==
  IF ~Truthy(cc) \/ cc.messages = <<>>
  THEN [ret |-> FALSE, cc |-> cc]
  ELSE [ret |-> TRUE,
        cc |-> [cc EXCEPT !.messages = SubSeq(@, 1, Len(@) - 1),
                          !.updated_at = now]]

\* mutant: pops messages[message_index] (0-based use of the 1-based index)
delete_message_off_by_one(cc, message_index, now) ==
  IF ~Truthy(cc)
  THEN [ret |-> FALSE, cc |-> cc]
  ELSE IF message_index < 1 \/ message_index > Len(cc.messages)
  THEN [ret |-> FALSE, cc |-> cc]
  ELSE [ret |-> TRUE,
        cc |-> [cc EXCEPT
                 !.messages = SubSeq(@, 1, message_index)
                                \o SubSeq(@, message_index + 2, Len(@)),
                 !.updated_at = now]]

delete_message(cc, message_index, now) ==
  IF ~Truthy(cc)
  THEN [ret |-> FALSE, cc |-> cc]
  ELSE IF message_index < 1 \/ message_index > Len(cc.messages)
  THEN [ret |-> FALSE, cc |-> cc]
  ELSE [ret |-> TRUE,
        cc |-> [cc EXCEPT
                 !.messages = SubSeq(@, 1, message_index - 1)
                                \o SubSeq(@, message_index + 1, Len(@)),
                 !.updated_at = now]]

\* mutant: the edit also drops the messages after the edited one
edit_message_truncating(cc, message_index, new_content, now) ==
  IF ~Truthy(cc)
  THEN [ret |-> FALSE, cc |-> cc]
  ELSE IF message_index < 1 \/ message_index > Len(cc.messages)
  THEN [ret |-> FALSE, cc |-> cc]
  ELSE [ret |-> TRUE,
        cc |-> [cc EXCEPT
                 !.messages =
                    SubSeq(@, 1, message_index - 1)
                      \o <<SetItem(SetItem(@[message_index], "content",
                                           new_content), "timestamp", now)>>,
                 !.updated_at = now]]

edit_message(cc, message_index, new_content, now) ==
  IF ~Truthy(cc)
  THEN [ret |-> FALSE, cc |-> cc]
  ELSE IF message_index < 1 \/ message_index > Len(cc.messages)
  THEN [ret |-> FALSE, cc |-> cc]
  ELSE [ret |-> TRUE,
        cc |-> [cc EXCEPT
                 !.messages[message_index] =
                    SetItem(SetItem(@, "content", new_content),
                            "timestamp", now),
                 !.updated_at = now]]

\* mutant: keeps msgs[:message_index - 1]
truncate_history_short(cc, message_index, now) ==
  IF ~Truthy(cc)
  THEN [ret |-> FALSE, cc |-> cc]
  ELSE IF message_index < 1 \/ message_index > Len(cc.messages)
  THEN [ret |-> FALSE, cc |-> cc]
  ELSE [ret |-> TRUE,
        cc |-> [cc EXCEPT !.messages = SubSeq(@, 1, message_index - 1),
                          !.updated_at = now]]

truncate_history(cc, message_index, now) ==
  IF ~Truthy(cc)
  THEN [ret |-> FALSE, cc |-> cc]
  ELSE IF message_index < 1 \/ message_index > Len(cc.messages)
  THEN [ret |-> FALSE, cc |-> cc]
  ELSE [ret |-> TRUE,
        cc |-> [cc EXCEPT !.messages = SubSeq(@, 1, message_index),
                          !.updated_at = now]]

\* mutant: no lower bound on the index, so that 0 and negative indices wrap
\* around as Python's negative subscripts do
get_message_wrapping(cc, message_index) ==
  IF ~Truthy(cc)
  THEN None
  ELSE IF message_index > Len(cc.messages)
  THEN None
  ELSE IF message_index - 1 < -Len(cc.messages)
  THEN None
  ELSE IF message_index >= 1
  THEN cc.messages[message_index]
  ELSE cc.messages[Len(cc.messages) + message_index]

get_message(cc, message_index) ==
  IF ~Truthy(cc)
  THEN None
  ELSE IF message_index < 1 \/ message_index > Len(cc.messages)
  THEN None
  ELSE cc.messages[message_index]

get_message_count(cc) == IF ~Truthy(cc) THEN 0 ELSE Len(cc.messages)

\* ------------------------------------------------------------- JSON values
\* A JSON value as Python holds it after response.json(): None, a str, a list
\* or a dict (its items in order); and an SDK object with attributes.
JNull == [t |-> "null"]

PyObj(o) == [t |-> "pyobj", o |-> o]

JStr(s) == [t |-> "str", s |-> s]

JList(l) == [t |-> "list", l |-> l]

JObj(o) == [t |-> "obj", o |-> o]

\* a number, kept as its digits
JNum(n) == [t |-> "num", n |-> n]

\* the result of evaluating an expression: a value, or an exception
Val(v) == [exc |-> NoExc, v |-> v]

Raise(type, msg) == [exc |-> Exc(type, msg), v |-> JNull]

Bind(r, F(_)) == IF r.exc # NoExc THEN r ELSE F(r.v)

HasKey(x, key) == \E i \in 1..Len(x.o) : x.o[i][1] = key

Lookup(x, key) == x.o[CHOOSE i \in 1..Len(x.o) : x.o[i][1] = key][2]

\* x[key] with a str key
GetItem(x, key) ==
  CASE x.t = "obj" ->
         IF HasKey(x, key) THEN Val(Lookup(x, key))
         ELSE Raise("KeyError", "'" \o key \o "'")
    [] x.t = "list" ->
         Raise("TypeError", "list indices must be integers or slices, not str")
    [] x.t = "str" -> Raise("TypeError", "string indices must be integers")
    [] x.t \in {"null", "num", "pyobj"} ->
         Raise("TypeError", "object is not subscriptable")

\* x[0]
GetFirst(x) ==
  CASE x.t = "list" ->
         IF x.l # <<>> THEN Val(x.l[1])
         ELSE Raise("IndexError", "list index out of range")
    [] x.t = "obj" -> Raise("KeyError", "0")
    [] x.t = "str" ->
         IF Len(x.s) > 0 THEN Val(JStr(SubSeq(x.s, 1, 1)))
         ELSE Raise("IndexError", "string index out of range")
    [] x.t \in {"null", "num", "pyobj"} ->
         Raise("TypeError", "object is not subscriptable")

\* x.get(key, default)
DictGet(x, key, default) ==
  IF x.t = "obj"
  THEN Val(IF HasKey(x, key) THEN Lookup(x, key) ELSE default)
  ELSE Raise("AttributeError", "object has no attribute 'get'")

\* the items a for loop over x visits
Iterate(x) ==
  CASE x.t = "list" -> Val(x.l)
    [] x.t = "obj" -> Val([i \in 1..Len(x.o) |-> JStr(x.o[i][1])])
    [] x.t = "str" -> Val([i \in 1..Len(x.s) |-> JStr(SubSeq(x.s, i, i))])
    [] x.t \in {"null", "num", "pyobj"} ->
         Raise("TypeError", "object is not iterable")

\* bool(x)
JTruthy(x) ==
  CASE x.t = "null" -> FALSE
    [] x.t = "str" -> x.s # ""
    [] x.t = "list" -> x.l # <<>>
    [] x.t = "obj" -> x.o # <<>>
    [] x.t = "pyobj" -> TRUE
    [] x.t = "num" -> x.n # "0"

\* a JSON str is a Python str; every other value stays what it is
ToPy(x) == IF x.t = "str" THEN x.s ELSE x

\* repr(x), which str() of a dict or list applies to what it contains
RECURSIVE Repr(_)
RECURSIVE ReprItems(_, _)
ReprItems(items, isDict) ==
  IF items = <<>> THEN ""
  ELSE (IF isDict
        THEN "'" \o Head(items)[1] \o "': " \o Repr(Head(items)[2])
        ELSE Repr(Head(items)))
       \o (IF Tail(items) = <<>> THEN "" ELSE ", ")
       \o ReprItems(Tail(items), isDict)

Repr(x) ==
  CASE x.t = "null" -> "None"
    [] x.t = "str" -> "'" \o x.s \o "'"
    [] x.t = "list" -> "[" \o ReprItems(x.l, FALSE) \o "]"
    [] x.t = "obj" -> "{" \o ReprItems(x.o, TRUE) \o "}"
    [] x.t = "pyobj" -> "Object(" \o ReprItems(x.o, TRUE) \o ")"
    [] x.t = "num" -> x.n

\* str(x)
Str(x) == IF x.t = "str" THEN x.s ELSE Repr(x)

\* ------------------------------------------- verbiage/api_utils.py (dicts)
\* response["choices"][0]["message"]
ChoiceMessage(response) ==
  Bind(Bind(GetItem(response, "choices"), GetFirst),
       LAMBDA c : GetItem(c, "message"))

Caught(exc) == exc.type \in {"KeyError", "IndexError"}

extract_text_from_response(response) ==
  LET r == Bind(ChoiceMessage(response), LAMBDA m : GetItem(m, "content"))
  IN IF r.exc = NoExc THEN Val(IF JTruthy(r.v) THEN ToPy(r.v) ELSE "")
     ELSE IF Caught(r.exc) THEN Val(Str(response))
     ELSE r

\* the loop body of extract_tools_from_response over the remaining calls
RECURSIVE ToolNames(_, _)
ToolNames(calls, tools) ==
  IF calls = <<>> THEN [exc |-> NoExc, v |-> tools]
  ELSE LET r == Bind(GetItem(Head(calls), "function"),
                     LAMBDA f : GetItem(f, "name"))
       IN IF r.exc # NoExc THEN [exc |-> r.exc, v |-> tools]
          ELSE ToolNames(Tail(calls), Append(tools, ToPy(r.v)))

extract_tools_from_response(response) ==
  LET calls == Bind(Bind(ChoiceMessage(response),
                         LAMBDA m : DictGet(m, "tool_calls", JList(<<>>))),
                    Iterate)
      r == IF calls.exc # NoExc THEN [exc |-> calls.exc, v |-> <<>>]
           ELSE ToolNames(calls.v, <<>>)
  IN IF r.exc = NoExc \/ Caught(r.exc) THEN Val(r.v) ELSE r

\* the loop body of extract_sources_from_response over the remaining
\* annotations
RECURSIVE Citations(_, _)
Citations(anns, sources) ==
  IF anns = <<>> THEN [exc |-> NoExc, v |-> sources]
  ELSE LET type == DictGet(Head(anns), "type", JNull)
       IN IF type.exc # NoExc THEN [exc |-> type.exc, v |-> sources]
          ELSE IF type.v = JStr("url_citation")
          THEN LET c == GetItem(Head(anns), "url_citation")
               IN IF c.exc # NoExc THEN [exc |-> c.exc, v |-> sources]
                  ELSE Citations(Tail(anns), Append(sources, c.v))
          ELSE Citations(Tail(anns), sources)

extract_sources_from_response(response) ==
  LET anns == Bind(Bind(ChoiceMessage(response),
                        LAMBDA m : DictGet(m, "annotations", JList(<<>>))),
                   Iterate)
      r == IF anns.exc # NoExc THEN [exc |-> anns.exc, v |-> <<>>]
           ELSE Citations(anns.v, <<>>)
  IN IF r.exc = NoExc \/ Caught(r.exc) THEN Val(r.v) ELSE r

\* ----------------------------------------- src/api_utils.py (SDK objects)
\* hasattr(x, name)
HasAttr(x, name) == x.t = "pyobj" /\ HasKey(x, name)

\* x.name
GetAttr(x, name) ==
  IF HasAttr(x, name) THEN Val(Lookup(x, name))
  ELSE Raise("AttributeError", "object has no attribute '" \o name \o "'")

\* "\n".join(texts)
RECURSIVE Join(_)
Join(texts) ==
  IF texts = <<>> THEN Val("")
  ELSE IF Head(texts).t # "str"
  THEN Raise("TypeError", "sequence item: expected str instance")
  ELSE IF Tail(texts) = <<>> THEN Val(Head(texts).s)
  ELSE LET r == Join(Tail(texts))
       IN IF r.exc # NoExc THEN r ELSE Val(Head(texts).s \o "\n" \o r.v)

\* the text attribute of every item that has one
RECURSIVE TextsOf(_)
TextsOf(items) ==
  IF items = <<>> THEN <<>>
  ELSE (IF HasAttr(Head(items), "text")
        THEN <<Lookup(Head(items), "text")>> ELSE <<>>)
       \o TextsOf(Tail(items))

\* the loop over response.output collecting the text of each content item
RECURSIVE OutputTexts(_)
OutputTexts(output) ==
  IF output = <<>> THEN Val(<<>>)
  ELSE LET item == Head(output)
           own == IF HasAttr(item, "content")
                     /\ JTruthy(Lookup(item, "content"))
                  THEN Bind(Iterate(Lookup(item, "content")),
                            LAMBDA c : Val(TextsOf(c)))
                  ELSE Val(<<>>)
           rest == OutputTexts(Tail(output))
       IN IF own.exc # NoExc THEN own
          ELSE IF rest.exc # NoExc THEN rest
          ELSE Val(own.v \o rest.v)

\* the branches of extract_text_from_response after the responses.create one
TextFromChoicesOrContent(response) ==
  LET choice == IF HasAttr(response, "choices")
                   /\ JTruthy(Lookup(response, "choices"))
                THEN GetFirst(Lookup(response, "choices"))
                ELSE Val(JNull)
  IN IF choice.exc # NoExc THEN choice
     ELSE IF /\ HasAttr(choice.v, "message")
             /\ HasAttr(Lookup(choice.v, "message"), "content")
     THEN LET c == Lookup(Lookup(choice.v, "message"), "content")
          IN Val(IF JTruthy(c) THEN ToPy(c) ELSE "")
     ELSE IF HasAttr(response, "content")
             /\ Lookup(response, "content").t = "str"
     THEN Val(Lookup(response, "content").s)
     ELSE IF HasAttr(response, "content")
             /\ Lookup(response, "content").t = "list"
     THEN LET l == Lookup(response, "content").l
          IN Join([i \in 1..Len(l) |->
                    IF HasAttr(l[i], "text") THEN Lookup(l[i], "text")
                    ELSE l[i]])
     ELSE Val(Str(response))

extract_text_from_response_openai(response) ==
  IF response.t = "str" THEN Val(response.s)
  ELSE IF HasAttr(response, "output") /\ JTruthy(Lookup(response, "output"))
  THEN LET texts == Bind(Iterate(Lookup(response, "output")), OutputTexts)
       IN IF texts.exc # NoExc THEN texts
          ELSE IF texts.v # <<>> THEN Join(texts.v)
          ELSE TextFromChoicesOrContent(response)
  ELSE TextFromChoicesOrContent(response)

\* the type attribute of every tool that has one
RECURSIVE ToolTypes(_)
ToolTypes(tools) ==
  IF tools = <<>> THEN <<>>
  ELSE (IF HasAttr(Head(tools), "type")
        THEN <<ToPy(Lookup(Head(tools), "type"))>> ELSE <<>>)
       \o ToolTypes(Tail(tools))

\* the function name of every tool call that has one
RECURSIVE CallNames(_)
CallNames(calls) ==
  IF calls = <<>> THEN <<>>
  ELSE (IF /\ HasAttr(Head(calls), "function")
           /\ HasAttr(Lookup(Head(calls), "function"), "name")
        THEN <<ToPy(Lookup(Lookup(Head(calls), "function"), "name"))>>
        ELSE <<>>)
       \o CallNames(Tail(calls))

extract_tools_from_response_openai(response) ==
  LET fromTools ==
        IF HasAttr(response, "tools") /\ JTruthy(Lookup(response, "tools"))
        THEN Bind(Iterate(Lookup(response, "tools")),
                  LAMBDA l : Val(ToolTypes(l)))
        ELSE Val(<<>>)
      choice ==
        IF HasAttr(response, "choices")
           /\ JTruthy(Lookup(response, "choices"))
        THEN GetFirst(Lookup(response, "choices"))
        ELSE Val(JNull)
      fromCalls ==
        IF choice.exc # NoExc THEN choice
        ELSE IF /\ HasAttr(choice.v, "message")
                /\ HasAttr(Lookup(choice.v, "message"), "tool_calls")
                /\ JTruthy(Lookup(Lookup(choice.v, "message"), "tool_calls"))
        THEN Bind(Iterate(Lookup(Lookup(choice.v, "message"), "tool_calls")),
                  LAMBDA l : Val(CallNames(l)))
        ELSE Val(<<>>)
  IN IF fromTools.exc # NoExc THEN fromTools
     ELSE IF fromCalls.exc # NoExc THEN fromCalls
     ELSE Val(fromTools.v \o fromCalls.v)

\* one annotation as a source record
AnnotationSource(annotation) ==
  IF annotation.t = "obj" THEN annotation
  ELSE IF annotation.t = "pyobj" THEN JObj(annotation.o)
  ELSE JObj(<< <<"annotation", JStr(Str(annotation))>> >>)

\* the annotations of the content items of one output item
RECURSIVE ContentSources(_)
ContentSources(content) ==
  IF content = <<>> THEN Val(<<>>)
  ELSE LET own == IF HasAttr(Head(content), "annotations")
                     /\ JTruthy(Lookup(Head(content), "annotations"))
                  THEN Bind(Iterate(Lookup(Head(content), "annotations")),
                            LAMBDA l : Val([i \in 1..Len(l) |->
                                             AnnotationSource(l[i])]))
                  ELSE Val(<<>>)
           rest == ContentSources(Tail(content))
       IN IF own.exc # NoExc THEN own
          ELSE IF rest.exc # NoExc THEN rest
          ELSE Val(own.v \o rest.v)

RECURSIVE OutputSources(_)
OutputSources(output) ==
  IF output = <<>> THEN Val(<<>>)
  ELSE LET item == Head(output)
           own == IF HasAttr(item, "content")
                     /\ JTruthy(Lookup(item, "content"))
                  THEN Bind(Iterate(Lookup(item, "content")), ContentSources)
                  ELSE Val(<<>>)
           rest == OutputSources(Tail(output))
       IN IF own.exc # NoExc THEN own
          ELSE IF rest.exc # NoExc THEN rest
          ELSE Val(own.v \o rest.v)

extract_sources_from_response_openai(response) ==
  IF HasAttr(response, "output") /\ JTruthy(Lookup(response, "output"))
  THEN Bind(Iterate(Lookup(response, "output")), OutputSources)
  ELSE Val(<<>>)

\* what the backend may answer with
HelloResponse ==
  JObj(<< <<"choices", JList(<<JObj(<< <<"message", JObj(<<
    <<"content", JStr("hello")>>,
    <<"tool_calls", JList(<<JObj(<< <<"function", JObj(<<
        <<"name", JStr("web_search")>> >>)>> >>)>>)>>,
    <<"annotations", JList(<<JObj(<<
        <<"type", JStr("url_citation")>>,
        <<"url_citation", JObj(<< <<"title", JStr("T")>>,
                                  <<"url", JStr("U")>> >>)>> >>)>>)>>
    >>)>> >>)>>)>> >>)

NullMessageResponse ==
  JObj(<< <<"choices", JList(<<JObj(<< <<"message", JNull>> >>)>>)>> >>)

\* a responses.create result with two text items, a tool and a citation
OutputResponse ==
  PyObj(<< <<"output", JList(<<PyObj(<< <<"content", JList(<<
              PyObj(<< <<"text", JStr("bon")>>,
                       <<"annotations", JList(<<
                           JObj(<< <<"title", JStr("T")>>,
                                   <<"url", JStr("U")>> >>)>>)>> >>),
              PyObj(<< <<"text", JStr("jour")>> >>)>>)>> >>)>>)>>,
           <<"tools", JList(<<PyObj(<< <<"type", JStr("web_search_preview")>>
                                     >>)>>)>> >>)

\* a responses.create result whose output cannot be iterated
BadOutputResponse == PyObj(<< <<"output", PyObj(<<>>)>> >>)

\* a chat.completions.create result without any choice
EmptyChoicesResponse == PyObj(<< <<"choices", JList(<<>>)>> >>)

\* a chat.completions.create result
ChatResponse ==
  PyObj(<< <<"choices", JList(<<PyObj(<< <<"message", PyObj(<<
              <<"content", JStr("salut")>> >>)>> >>)>>)>> >>)

\* ------------------------------------------------------------------ agents
\* temperatures are counted in tenths: 7 is 0.7
config_temperature == 7

config_max_tokens == 2048

AssistantAgent ==
  [name |-> "assistant",
   system_prompt |-> "Tu es un assistant IA serviable, precis et amical.",
   description |-> "Assistant general polyvalent",
   temperature |-> 7,
   max_tokens |-> 2048,
   tools |-> <<"web_search_preview">>,
   created_at |-> 0]

\* an agent the user made in an earlier session
DevAgent ==
  [name |-> "dev",
   system_prompt |-> "Tu es un developpeur.",
   description |-> "dev",
   temperature |-> 3,
   max_tokens |-> 1024,
   tools |-> <<"web_search_preview", "code_interpreter">>,
   created_at |-> -1]

AgentFiles == {"assistant.json", "dev.json", "ghost.json"}

UpperCase == "ABCDEFGHIJKLMNOPQRSTUVWXYZ"

LowerCase == "abcdefghijklmnopqrstuvwxyz"

\* str.lower() of one character
LowerChar(c) ==
  IF \E i \in 1..Len(UpperCase) : SubSeq(UpperCase, i, i) = c
  THEN LET i == CHOOSE i \in 1..Len(UpperCase) : SubSeq(UpperCase, i, i) = c
       IN SubSeq(LowerCase, i, i)
  ELSE c

\* name.replace(' ', '_').lower() + ".json"
RECURSIVE FormatName(_)
FormatName(name) ==
  IF name = "" THEN ""
  ELSE (IF SubSeq(name, 1, 1) = " " THEN "_"
        ELSE LowerChar(SubSeq(name, 1, 1)))
       \o FormatName(SubSeq(name, 2, Len(name)))

_format_agent_filename(name) == FormatName(name) \o ".json"

\* the file an agent name is kept in: normalised by the openrouter
\* application, the bare name in the openai one
AgentFile(variant, name) ==
  IF variant = "openrouter" THEN _format_agent_filename(name)
  ELSE name \o ".json"

\* agent_file.exists()
RecordIn(dir, file) == file \in DOMAIN dir /\ dir[file] # None

\* the file written is named by the name as given
save_agent_raw_name(variant, dir, agent) ==
  [f \in DOMAIN dir \cup {agent.name \o ".json"} |->
     IF f = agent.name \o ".json" THEN agent ELSE dir[f]]

save_agent(variant, dir, agent) ==
  [f \in DOMAIN dir \cup {AgentFile(variant, agent.name)} |->
     IF f = AgentFile(variant, agent.name) THEN agent ELSE dir[f]]

\* a file that is no JSON text: json.load raises JSONDecodeError
InvalidJson == [t |-> "invalid json"]

\* a file that is no UTF-8 text: reading it raises UnicodeDecodeError
InvalidUtf8 == [t |-> "invalid utf-8"]

\* a file holding a JSON value that is no object, such as [1]
NotObject == [t |-> "list"]

\* a file holding a JSON object without the key system_prompt
MissingPrompt == [name |-> "ghost"]

\* a file holding the JSON object of an agent and one more key
ExtraField ==
  [name |-> "ghost", system_prompt |-> "p", description |-> "", temperature |-> 7,
   max_tokens |-> 2048, tools |-> <<"web_search_preview">>, created_at |-> 0,
   model |-> "m"]

\* the parameters of Agent.__init__, and those without a default
AgentParams ==
  {"name", "system_prompt", "description", "temperature", "max_tokens",
   "tools", "created_at"}

RequiredParams == {"name", "system_prompt"}

\* Agent.from_dict(data), cls(**data), raises TypeError: data is no mapping,
\* lacks a parameter without default or has a key that is no parameter
from_dict_raises(data) ==
  \/ "t" \in DOMAIN data
  \/ ~(RequiredParams \subseteq DOMAIN data)
  \/ ~(DOMAIN data \subseteq AgentParams)

\* what reading and parsing an agent file raises through the except clause
\* (json.JSONDecodeError, KeyError)
ReadRaised(dir, file) ==
  IF file \notin DOMAIN dir \/ dir[file] \in {None, InvalidJson} THEN NoExc
  ELSE IF dir[file] = InvalidUtf8
  THEN Exc("UnicodeDecodeError", "'utf-8' codec can't decode byte")
  ELSE IF from_dict_raises(dir[file])
  THEN Exc("TypeError", "Agent.__init__()")
  ELSE NoExc

\* the agent read from a file, None if there is no such file or it is no
\* JSON text (and when ReadRaised tells that the read raised); the objects
\* stored have every key of to_dict, so that no default is filled in
ReadAgent(dir, file) ==
  IF file \notin DOMAIN dir THEN None
  ELSE IF dir[file] \in {InvalidJson, InvalidUtf8} THEN None
  ELSE IF from_dict_raises(dir[file]) THEN None
  ELSE dir[file]

load_agent(variant, dir, name) == ReadAgent(dir, AgentFile(variant, name))

\* switch_agent given what load_agent returned or raised
SwitchLoaded(current, agent, raised) ==
  IF raised # NoExc THEN [ret |-> None, current |-> current, raised |-> raised]
  ELSE IF agent # None
  THEN [ret |-> TRUE, current |-> agent, raised |-> NoExc]
  ELSE [ret |-> FALSE, current |-> current, raised |-> NoExc]

\* returns the new current agent and the bool result, or raises what
\* load_agent raised
switch_agent(variant, dir, current, name) ==
  SwitchLoaded(current, load_agent(variant, dir, name),
               ReadRaised(dir, AgentFile(variant, name)))

\* Agent(name, system_prompt) with the defaults of the constructor
NewAgent(name, system_prompt, now) ==
  [name |-> name,
   system_prompt |-> system_prompt,
   description |-> "",
   temperature |-> 7,
   max_tokens |-> 2048,
   tools |-> <<"web_search_preview">>,
   created_at |-> now]

\* the directory after create_agent and the agent it returns
create_agent(variant, dir, name, system_prompt, now) ==
  [dir |-> save_agent(variant, dir, NewAgent(name, system_prompt, now)),
   ret |-> NewAgent(name, system_prompt, now)]

\* the default agent is deleted like any other
delete_agent_unprotected(variant, dir, current, name) ==
  IF (name \o ".json") \in DOMAIN dir /\ dir[name \o ".json"] # None
  THEN [ret |-> TRUE,
        dir |-> [dir EXCEPT ![name \o ".json"] = None],
        current |-> IF current # None /\ current.name = name
                    THEN load_agent(variant, dir, "assistant")
                    ELSE current]
  ELSE [ret |-> FALSE, dir |-> dir, current |-> current]

\* the bool result, the directory and the current agent after delete_agent:
\* the file looked for is name + ".json" in both applications
delete_agent(variant, dir, current, name) ==
  IF name = "assistant" THEN [ret |-> FALSE, dir |-> dir, current |-> current]
  ELSE IF (name \o ".json") \in DOMAIN dir /\ dir[name \o ".json"] # None
  THEN [ret |-> TRUE,
        dir |-> [dir EXCEPT ![name \o ".json"] = None],
        current |-> IF current # None /\ current.name = name
                    THEN load_agent(variant, dir, "assistant")
                    ELSE current]
  ELSE [ret |-> FALSE, dir |-> dir, current |-> current]

\* the keys list_agents reads of each object
ListedKeys == {"name", "description", "temperature", "tools"}

\* the names list_agents lists: those of the objects that have the keys it
\* reads (the order, by name, is left out); files that are no JSON text
\* or lack a key are skipped, and it raises on a file that is no UTF-8 text
\* or holds no object
list_agents(dir) ==
  IF \E f \in DOMAIN dir : dir[f] = InvalidUtf8
  THEN [raised |-> Exc("UnicodeDecodeError", "'utf-8' codec can't decode byte"),
        ret |-> {}]
  ELSE IF \E f \in DOMAIN dir : dir[f] = NotObject
  THEN [raised |-> Exc("TypeError", "list indices must be integers"),
        ret |-> {}]
  ELSE [raised |-> NoExc,
        ret |-> {dir[f].name :
                   f \in {g \in DOMAIN dir :
                            /\ dir[g] \notin {None, InvalidJson}
                            /\ ListedKeys \subseteq DOMAIN dir[g]}}]

\* one of the further default agents of the openai application
DefaultAgent(name, description, temperature) ==
  [name |-> name,
   system_prompt |-> "Tu es " \o name,
   description |-> description,
   temperature |-> temperature,
   max_tokens |-> 2048,
   tools |-> <<"web_search_preview">>,
   created_at |-> 0]

\* default_agents of _create_default_agents: one agent in the openrouter
\* application, five in the openai one
default_agents(variant) ==
  IF variant = "openrouter" THEN <<AssistantAgent>>
  ELSE <<AssistantAgent,
         DefaultAgent("developer", "Expert en developpement", 3),
         DefaultAgent("researcher", "Chercheur", 4),
         DefaultAgent("creative", "Agent creatif", 9),
         DefaultAgent("teacher", "Enseignant", 6)>>

\* the loop of _create_default_agents over the first n default agents: the
\* openai application saves those that have no file, the openrouter one all
RECURSIVE SaveDefaults(_, _, _)
SaveDefaults(variant, dir, n) ==
  IF n = 0 THEN dir
  ELSE LET d == SaveDefaults(variant, dir, n - 1)
           agent == default_agents(variant)[n]
       IN IF variant = "openai" /\ RecordIn(d, AgentFile(variant, agent.name))
          THEN d
          ELSE save_agent(variant, d, agent)

_create_default_agents(variant, dir) ==
  SaveDefaults(variant, dir, Len(default_agents(variant)))

\* AgentManager.__init__ on the directory dir: the directory afterwards and
\* the current agent
AgentManagerInit(variant, dir) ==
  IF variant = "openrouter"
  THEN LET d == IF \A f \in DOMAIN dir : dir[f] = None
                THEN _create_default_agents(variant, dir) ELSE dir
       IN [dir |-> d,
           current |-> switch_agent(variant, d, None, "assistant").current]
  ELSE [dir |-> _create_default_agents(variant, dir),
        current |-> default_agents(variant)[1]]

get_system_message(agent) ==
  IF agent # None
  THEN [role |-> "system", content |-> agent.system_prompt]
  ELSE None

\* --------------------------------------------------------- backend adapters
\* the {role, content} record of each message of the history, or the
\* KeyError of the first message that lacks one of the two
RECURSIVE HistoryRecords(_)
HistoryRecords(msgs) ==
  IF msgs = <<>> THEN Val(<<>>)
  ELSE IF "role" \notin DOMAIN Head(msgs) THEN Raise("KeyError", "'role'")
  ELSE IF "content" \notin DOMAIN Head(msgs)
  THEN Raise("KeyError", "'content'")
  ELSE Bind(HistoryRecords(Tail(msgs)),
            LAMBDA rest : Val(<<[role |-> Head(msgs).role,
                                 content |-> Head(msgs).content]>> \o rest))

\* the system message of the agent, if there is one
SystemMessages(agent) ==
  IF get_system_message(agent) # None THEN <<get_system_message(agent)>>
  ELSE <<>>

\* system message, history, new user turn, given what reading the history
\* gave
MessagesWith(agent, history, message) ==
  IF history.exc # NoExc THEN history
  ELSE Val(SystemMessages(agent) \o history.v
           \o <<[role |-> "user", content |-> message]>>)

\* system message and new user turn only: the history is left out
MessageList_without_history(agent, cc, message) ==
  Val(SystemMessages(agent) \o <<[role |-> "user", content |-> message]>>)

\* system message, history, new user turn
MessageList(agent, cc, message) ==
  MessagesWith(agent,
               IF Truthy(cc) THEN HistoryRecords(cc.messages) ELSE Val(<<>>),
               message)

\* payload["plugins"] = [{"id": "web"}] if the web search is on
WithPlugins(payload, web_search_enabled) ==
  IF web_search_enabled
  THEN [k \in DOMAIN payload \cup {"plugins"} |->
         IF k = "plugins" THEN <<[id |-> "web"]>> ELSE payload[k]]
  ELSE payload

\* the payload around the message list
PayloadWith(agent, messages, web_search_enabled) ==
  IF messages.exc # NoExc THEN messages
  ELSE Val(WithPlugins(
             [model |-> "deepseek/deepseek-chat-v3-0324:free",
              messages |-> messages.v,
              temperature |-> IF agent # None THEN agent.temperature
                              ELSE config_temperature,
              max_tokens |-> IF agent # None THEN agent.max_tokens
                             ELSE config_max_tokens],
             web_search_enabled))

build_openrouter_payload(agent, cc, message, web_search_enabled) ==
  PayloadWith(agent, MessageList(agent, cc, message), web_search_enabled)

\* what a send gives back to its caller
Returned(content, tools_used, sources, requests) ==
  [raised |-> NoExc, content |-> content, tools_used |-> tools_used,
   sources |-> sources, requests |-> requests]

Propagated(exc, requests) ==
  [raised |-> exc, content |-> "", tools_used |-> <<>>, sources |-> <<>>,
   requests |-> requests]

\* the three extractions over one received response; text, tools and
\* sources are the extractors of the dialect
Normalized(text, tools, sources) ==
  IF text.exc # NoExc THEN text
  ELSE IF tools.exc # NoExc THEN tools
  ELSE IF sources.exc # NoExc THEN sources
  ELSE Val([content |-> text.v, tools_used |-> tools.v, sources |-> sources.v])

\* the body of a try whose except returns the error text: call is the
\* request with what the transport did with it, n the normalized response
ErrorTextOr(prefix, call, n) ==
  IF call.outcome.kind = "interrupt"
  THEN Propagated(call.outcome.exc, <<call>>)
  ELSE IF call.outcome.kind = "raise"
  THEN Returned(prefix \o call.outcome.exc.msg, <<>>, <<>>, <<call>>)
  ELSE IF n.exc # NoExc
  THEN Returned(prefix \o n.exc.msg, <<>>, <<>>, <<call>>)
  ELSE Returned(n.v.content, n.v.tools_used, n.v.sources, <<call>>)

\* send_with_openrouter once the payload is built, or building it raised
PostPayload(payload, outcome) ==
  IF payload.exc # NoExc THEN Propagated(payload.exc, <<>>)
  ELSE ErrorTextOr("Erreur OpenRouter: ",
                   [dialect |-> "openrouter", body |-> payload.v,
                    outcome |-> outcome],
                   Normalized(extract_text_from_response(outcome.data),
                              extract_tools_from_response(outcome.data),
                              extract_sources_from_response(outcome.data)))

\* outcome is what the transport does with the request: it raises
\* (session.post, raise_for_status or response.json) or hands back data
send_with_openrouter(agent, cc, message, web_search_enabled, outcome) ==
  PostPayload(build_openrouter_payload(agent, cc, message,
                                       web_search_enabled),
              outcome)

\* "role: content" of each message of the history
RECURSIVE ContextLines(_)
ContextLines(msgs) ==
  IF msgs = <<>> THEN Val(<<>>)
  ELSE IF "role" \notin DOMAIN Head(msgs) THEN Raise("KeyError", "'role'")
  ELSE IF "content" \notin DOMAIN Head(msgs)
  THEN Raise("KeyError", "'content'")
  ELSE Bind(ContextLines(Tail(msgs)),
            LAMBDA rest :
              Val(<<JStr(Head(msgs).role \o ": " \o Head(msgs).content)>>
                  \o rest))

\* the tools of the request
AgentTools(agent) ==
  IF agent # None THEN [i \in 1..Len(agent.tools) |-> [type |-> agent.tools[i]]]
  ELSE <<[type |-> "web_search_preview"]>>

\* the lines of the context joined, the new turn last
FullInput(agent, history, message) ==
  Join((IF get_system_message(agent) # None
        THEN <<JStr("system: " \o get_system_message(agent).content)>>
        ELSE <<>>)
       \o history \o <<JStr("user: " \o message)>>).v

\* _send_with_responses_api after the call: nothing is caught here
RaiseOr(call, n) ==
  IF call.outcome.kind \in {"raise", "interrupt"} THEN Propagated(call.outcome.exc, <<call>>)
  ELSE IF n.exc # NoExc THEN Propagated(n.exc, <<call>>)
  ELSE Returned(n.v.content, n.v.tools_used, n.v.sources, <<call>>)

\* _send_with_responses_api given what reading the history gave
CreateResponse(agent, history, message, outcome) ==
  IF history.exc # NoExc THEN Propagated(history.exc, <<>>)
  ELSE RaiseOr([dialect |-> "responses",
                body |-> [model |-> "gpt-4.1",
                          tools |-> AgentTools(agent),
                          input |-> FullInput(agent, history.v, message)],
                outcome |-> outcome],
               Normalized(extract_text_from_response_openai(outcome.data),
                          extract_tools_from_response_openai(outcome.data),
                          extract_sources_from_response_openai(outcome.data)))

_send_with_responses_api(agent, cc, message, outcome) ==
  CreateResponse(agent,
                 IF Truthy(cc) THEN ContextLines(cc.messages) ELSE Val(<<>>),
                 message, outcome)

\* response.choices[0].message.content or ""
ChatContent(response) ==
  Bind(Bind(Bind(Bind(GetAttr(response, "choices"), GetFirst),
                 LAMBDA ch : GetAttr(ch, "message")),
            LAMBDA m : GetAttr(m, "content")),
       LAMBDA c : Val(IF JTruthy(c) THEN ToPy(c) ELSE ""))

\* _send_with_chat_api given the message list, or what building it raised
CreateCompletion(agent, messages, outcome) ==
  IF messages.exc # NoExc
  THEN Returned("Erreur lors de l'appel a l'API: " \o messages.exc.msg,
                <<>>, <<>>, <<>>)
  ELSE ErrorTextOr("Erreur lors de l'appel a l'API: ",
                   [dialect |-> "chat",
                    body |-> [model |-> "gpt-5-mini",
                              messages |-> messages.v,
                              max_tokens |-> IF agent # None
                                             THEN agent.max_tokens
                                             ELSE config_max_tokens,
                              temperature |-> IF agent # None
                                              THEN agent.temperature
                                              ELSE config_temperature],
                    outcome |-> outcome],
                   Normalized(ChatContent(outcome.data), Val(<<>>),
                              Val(<<>>)))

_send_with_chat_api(agent, cc, message, outcome) ==
  CreateCompletion(agent, MessageList(agent, cc, message), outcome)

\* the result of the primary call if it raised nothing, else that of the
\* standard call
Fallback(first, second) ==
  IF first.raised = NoExc \/ first.raised.type = "KeyboardInterrupt" THEN first
  ELSE [second EXCEPT !.requests = first.requests \o @]

\* a failure of the primary call becomes the error text
NoFallback(first) ==
  IF first.raised = NoExc THEN first
  ELSE Returned("Erreur lors de l'appel a l'API: " \o first.raised.msg,
                <<>>, <<>>, first.requests)

\* no fallback: the standard call is only made when it is the preferred one
send_message_to_gpt_no_fallback(use_responses, agent, cc, message, primary, standard) ==
  IF use_responses
  THEN NoFallback(_send_with_responses_api(agent, cc, message, primary))
  ELSE _send_with_chat_api(agent, cc, message, standard)

\* primary is the outcome of the responses.create call, standard that of the
\* chat.completions.create call, each used only if the call is made
send_message_to_gpt(use_responses, agent, cc, message, primary, standard) ==
  IF use_responses
  THEN Fallback(_send_with_responses_api(agent, cc, message, primary),
                _send_with_chat_api(agent, cc, message, standard))
  ELSE _send_with_chat_api(agent, cc, message, standard)

\* ------------------------------------------------------------ state machine
config == <<app, use_responses_api, auto_save>>

agents == <<agents_dir, current_agent>>

\* the record of the last operation: its inputs, the conversation before
\* it, what it returned or raised, the backend calls it made, the
\* conversation the adapter was called with and how the adapter ended
LastSend(op, index, text, ret, raised, requests, at_send, send) ==
  [op |-> op, index |-> index, text |-> text, pre |-> current_conversation,
   ret |-> ret, raised |-> raised, requests |-> requests,
   at_send |-> at_send, send |-> send]

Last(op, index, text, ret, raised, requests) ==
  LastSend(op, index, text, ret, raised, requests, None, "none")

\* run() before its first pass: no input handled yet
LoopStart ==
  [running |-> TRUE, input |-> "", handler |-> "", returned |-> "none"]

Ids == -1..MaxClock

\* conversations_dir at start-up: empty
InitFiles == [i \in Ids |-> None]

\* agents_dir at start-up: empty, or holding one agent made earlier
InitAgentDirs ==
  {[f \in AgentFiles |-> None],
   [f \in AgentFiles |-> IF f = "dev.json" THEN DevAgent ELSE None]}

Init ==
  /\ app \in {"openai", "openrouter"}
  /\ use_responses_api \in BOOLEAN
  /\ (app = "openrouter" => use_responses_api = FALSE)
  /\ auto_save \in BOOLEAN
  /\ clock = 0
  /\ turns = 0
  /\ current_conversation = None
  /\ files = InitFiles
  /\ \E d \in InitAgentDirs :
       /\ agents_dir = AgentManagerInit(app, d).dir
       /\ current_agent = AgentManagerInit(app, d).current
  /\ loop = LoopStart
  /\ last = Last("init", 0, "", None, NoExc, <<>>)

Tick ==
  /\ clock < MaxClock
  /\ clock' = clock + 1
  /\ UNCHANGED <<config, loop, turns, current_conversation, files, agents, last>>

\* in the applications the clock is read once per conversation: time passes
\* while no conversation is open
TickIdle ==
  /\ ~Truthy(current_conversation)
  /\ Tick

\* one more pass of the run loop: an input is read and handled
NextTurn ==
  /\ turns < MaxTurns
  /\ turns' = turns + 1

\* ---- the transport
Raises(type, msg) == [kind |-> "raise", exc |-> Exc(type, msg), data |-> JNull]

Answers(data) == [kind |-> "ok", exc |-> NoExc, data |-> data]

\* Ctrl-C while the call is in flight: KeyboardInterrupt, which is no
\* Exception, is raised in the calling thread
Interrupts ==
  [kind |-> "interrupt", exc |-> Exc("KeyboardInterrupt", ""), data |-> JNull]

OpenRouterOutcomes ==
  {Raises("ConnectionError", "connection refused"),
   Answers(HelloResponse),
   Answers(NullMessageResponse)}

PrimaryOutcomes ==
  {Raises("APIError", "responses unavailable"),
   Answers(OutputResponse),
   Answers(BadOutputResponse)}

StandardOutcomes ==
  {Raises("APIError", "chat unavailable"),
   Answers(ChatResponse),
   Answers(EmptyChoicesResponse)}

\* ---- persistence
\* a document already stored under the id is kept
save_conversation_keeping(dir, cc) ==
  IF ~Truthy(cc) \/ dir[cc.id] # None THEN dir
  ELSE [dir EXCEPT ![cc.id] = cc]

\* the document is written without the last message of the log
save_conversation_stale(dir, cc) ==
  IF ~Truthy(cc) THEN dir
  ELSE [dir EXCEPT ![cc.id] =
          [cc EXCEPT !.messages = SubSeq(@, 1, Len(@) - 1)]]

save_conversation(dir, cc) ==
  IF ~Truthy(cc) THEN dir ELSE [dir EXCEPT ![cc.id] = cc]

\* a file whose text is the JSON value null: json.load gives None
NullDocument == [t |-> "null document"]

\* json.load is called outside any try: a file that is no JSON text raises
\* JSONDecodeError; whatever JSON value the file holds is returned and made
\* current, the value None of a null document too
load_conversation(dir, cc, conversation_id) ==
  IF conversation_id \notin DOMAIN dir \/ dir[conversation_id] = None
  THEN [ret |-> None, cc |-> cc, raised |-> NoExc]
  ELSE IF dir[conversation_id] = InvalidJson
  THEN [ret |-> None, cc |-> cc,
        raised |-> Exc("JSONDecodeError", "Expecting value")]
  ELSE IF dir[conversation_id] = NullDocument
  THEN [ret |-> None, cc |-> None, raised |-> NoExc]
  ELSE [ret |-> dir[conversation_id], cc |-> dir[conversation_id],
        raised |-> NoExc]

\* the keys list_conversations reads of each document
SummaryKeys == {"id", "title", "created_at", "messages"}

\* the summary appended for a document
Summary(data) ==
  [id |-> data.id, title |-> data.title, created_at |-> data.created_at,
   message_count |-> Len(data.messages)]

\* the loop of list_conversations over the files in the order of glob:
\* documents that are no JSON text or lack a key are skipped
RECURSIVE Summaries(_, _)
Summaries(dir, order) ==
  IF order = <<>> THEN <<>>
  ELSE (IF dir[Head(order)] \in {None, InvalidJson}
           \/ ~(SummaryKeys \subseteq DOMAIN dir[Head(order)])
        THEN <<>>
        ELSE <<Summary(dir[Head(order)])>>)
       \o Summaries(dir, Tail(order))

\* list.sort(key=created_at, reverse=True) puts x before the first element
\* whose key is smaller: the sort is stable
RECURSIVE InsertDesc(_, _)
InsertDesc(x, sorted) ==
  IF sorted = <<>> THEN <<x>>
  ELSE IF Head(sorted).created_at < x.created_at THEN <<x>> \o sorted
  ELSE <<Head(sorted)>> \o InsertDesc(x, Tail(sorted))

RECURSIVE SortDesc(_)
SortDesc(seq) ==
  IF seq = <<>> THEN <<>>
  ELSE InsertDesc(seq[Len(seq)], SortDesc(SubSeq(seq, 1, Len(seq) - 1)))

\* list_conversations over the files in the order glob yields them:
\* data["id"] of a JSON value that is no object raises TypeError, which the
\* except clause (json.JSONDecodeError, KeyError) lets through
list_conversations(dir, order) ==
  LET bad == {k \in DOMAIN order :
                dir[order[k]] \in {NotObject, NullDocument}}
      first == CHOOSE k \in bad : \A j \in bad : k <= j
  IN IF bad # {}
     THEN [raised |-> Exc("TypeError",
                          IF dir[order[first]] = NotObject
                          THEN "list indices must be integers"
                          ELSE "'NoneType' object is not subscriptable"),
           ret |-> None]
     ELSE [raised |-> NoExc, ret |-> SortDesc(Summaries(dir, order))]

\* ---- text
IsSpace(c) == c \in {" ", "\t", "\n"}

RECURSIVE LStrip(_)
LStrip(t) ==
  IF t # "" /\ IsSpace(SubSeq(t, 1, 1)) THEN LStrip(SubSeq(t, 2, Len(t)))
  ELSE t

RECURSIVE RStrip(_)
RStrip(t) ==
  IF t # "" /\ IsSpace(SubSeq(t, Len(t), Len(t)))
  THEN RStrip(SubSeq(t, 1, Len(t) - 1))
  ELSE t

\* str.strip()
Strip(t) == RStrip(LStrip(t))

\* str.lower()
RECURSIVE Lower(_)
Lower(t) ==
  IF t = "" THEN ""
  ELSE LowerChar(SubSeq(t, 1, 1)) \o Lower(SubSeq(t, 2, Len(t)))

\* the first whitespace-delimited word of a text with no leading whitespace
RECURSIVE Word(_)
Word(t) ==
  IF t = "" \/ IsSpace(SubSeq(t, 1, 1)) THEN ""
  ELSE SubSeq(t, 1, 1) \o Word(SubSeq(t, 2, Len(t)))

\* str.split(): the whitespace-delimited words
RECURSIVE Split(_)
Split(t) ==
  IF LStrip(t) = "" THEN <<>>
  ELSE <<Word(LStrip(t))>>
       \o Split(SubSeq(LStrip(t), Len(Word(LStrip(t))) + 1, Len(LStrip(t))))

Digits == "0123456789"

\* the value of a decimal digit, -1 for any other character
DigitValue(c) ==
  IF \E i \in 1..Len(Digits) : SubSeq(Digits, i, i) = c
  THEN (CHOOSE i \in 1..Len(Digits) : SubSeq(Digits, i, i) = c) - 1
  ELSE -1

\* int(t) of a text of decimal digits; -1 stands for ValueError (no
\* command line of the model holds a signed number)
RECURSIVE ParseInt(_)
ParseInt(t) ==
  IF t = "" \/ DigitValue(SubSeq(t, Len(t), Len(t))) = -1 THEN -1
  ELSE IF Len(t) = 1 THEN DigitValue(t)
  ELSE IF ParseInt(SubSeq(t, 1, Len(t) - 1)) = -1 THEN -1
  ELSE 10 * ParseInt(SubSeq(t, 1, Len(t) - 1))
       + DigitValue(SubSeq(t, Len(t), Len(t)))

\* t.startswith(prefix)
StartsWith(t, prefix) ==
  Len(t) >= Len(prefix) /\ SubSeq(t, 1, Len(prefix)) = prefix

\* ---- inputs
\* the long text is only typed to open a conversation
ChatInputs == {"Hi", Long60}

EditInputs == {"", "Bonjour", "/web Bonjour", "/web"}

AgentNames == {"dev"}

\* the result triple of a send
Triple(r) ==
  [content |-> r.content, tools_used |-> r.tools_used, sources |-> r.sources]

\* ---- what a handler does with the result r of the send it made on the
\* log c1: an exception leaves the log as it was sent; a result is appended
\* as the assistant message c2 and saved where the handler saves
AppendResult(op, index, text, c1, r, c2, save) ==
  /\ current_conversation' = c2
  /\ files' = IF save THEN save_conversation(files, c2) ELSE files
  /\ last' = LastSend(op, index, text, Triple(r), NoExc, r.requests, c1,
                      "returned")

AfterSend(op, index, text, c1, r, save) ==
  IF r.raised # NoExc
  THEN /\ current_conversation' = c1
       /\ files' = files
       /\ last' = LastSend(op, index, text, None, r.raised, r.requests, c1,
                           "raised")
  ELSE AppendResult(op, index, text, c1, r,
                    add_message(c1, "assistant", r.content, r.tools_used,
                                r.sources, clock).cc,
                    save)

\* the log a chat turn sends: the user message is added to the current
\* conversation, opened from the message if there is none
WithUserMessage(message) ==
  add_message(IF ~Truthy(current_conversation)
              THEN create_new_conversation(message, clock)
              ELSE current_conversation,
              "user", message, <<>>, <<>>, clock).cc

\* the send of the openrouter application on the log c1 and what follows
SendOpenRouter(op, index, text, c1, message, web_search, outcome, save) ==
  AfterSend(op, index, text, c1,
            send_with_openrouter(current_agent, c1, message, web_search,
                                 outcome),
            save)

\* the send of the openai application on the log c1 and what follows
SendGpt(op, index, text, c1, primary, standard, save) ==
  AfterSend(op, index, text, c1,
            send_message_to_gpt(use_responses_api, current_agent, c1, text,
                                primary, standard),
            save)

\* ---- a chat turn of the openrouter application
_send_message ==
  \E message \in ChatInputs, outcome \in OpenRouterOutcomes :
    /\ NextTurn
    /\ app = "openrouter"
    /\ (message = Long60 => ~Truthy(current_conversation))
    /\ SendOpenRouter("chat", 0, message, WithUserMessage(message), message,
                      FALSE, outcome, auto_save)
    /\ UNCHANGED <<config, loop, clock, agents>>

\* ---- a chat turn of the openai application (the body of the run loop)
run_turn ==
  \E user_input \in ChatInputs, primary \in PrimaryOutcomes,
     standard \in StandardOutcomes :
    /\ NextTurn
    /\ app = "openai"
    /\ (user_input = Long60 => ~Truthy(current_conversation))
    /\ SendGpt("chat", 0, user_input, WithUserMessage(user_input), primary,
               standard, auto_save)
    /\ UNCHANGED <<config, loop, clock, agents>>

\* the parameters of send_with_openrouter
SendParameters ==
  {"agent_manager", "conversation_manager", "message", "session",
   "web_search_enabled"}

\* an /edit that changes nothing: no such message, or no new text
NotEdited(msg_num, input) ==
  /\ current_conversation' = current_conversation
  /\ files' = files
  /\ last' = Last("edit", msg_num, input, None, NoExc, <<>>)

\* an /edit that ends on the edited and truncated log c1 with no send made
EditedOnly(msg_num, input, c1, raised) ==
  /\ current_conversation' = c1
  /\ files' = files
  /\ last' = Last("edit", msg_num, input, None, raised, <<>>)

\* the log after the edit of message msg_num and the truncation after it
EditedLog(msg_num, new_content) ==
  [edit_message(current_conversation, msg_num, new_content, clock).cc
     EXCEPT !.messages = SubSeq(@, 1, msg_num)]

\* the text of an edit without its /web prefix
NewContent(input) ==
  IF StartsWith(input, "/web") THEN Strip(SubSeq(input, WebLen + 1, Len(input)))
  ELSE input

\* a new text that is only the /web marker is stored and sent like any other
Regenerate_web_only_accepted(msg_num, input, new_content) ==
  IF input = "" THEN NotEdited(msg_num, input)
  ELSE IF "web_search" \notin SendParameters
  THEN EditedOnly(msg_num, input, EditedLog(msg_num, new_content),
                  Exc("TypeError",
                      "send_with_openrouter() got an unexpected keyword argument 'web_search'"))
  ELSE \E outcome \in OpenRouterOutcomes :
         SendOpenRouter("edit", msg_num, input,
                        EditedLog(msg_num, new_content), new_content,
                        StartsWith(input, "/web"), outcome, FALSE)

\* handle_edit once the new text is read
Regenerate(msg_num, input, new_content) ==
  IF input = "" \/ new_content = "" THEN NotEdited(msg_num, input)
  ELSE IF "web_search" \notin SendParameters
  THEN EditedOnly(msg_num, input, EditedLog(msg_num, new_content),
                  Exc("TypeError",
                      "send_with_openrouter() got an unexpected keyword argument 'web_search'"))
  ELSE \E outcome \in OpenRouterOutcomes :
         SendOpenRouter("edit", msg_num, input,
                        EditedLog(msg_num, new_content), new_content,
                        StartsWith(input, "/web"), outcome, FALSE)

\* ---- /edit of the openrouter application; the new text is asked for once
\* the message has been found
handle_edit ==
  \E msg_num \in Indices :
    /\ NextTurn
    /\ app = "openrouter"
    /\ UNCHANGED <<config, loop, clock, agents>>
    /\ IF get_message(current_conversation, msg_num) = None
       THEN NotEdited(msg_num, "")
       ELSE \E input \in EditInputs :
              Regenerate(msg_num, input, NewContent(input))

\* the reply is regenerated whatever the role of the edited message
RegenerateGpt_any_role(msg_num, new_content, role) ==
  IF new_content = "" THEN NotEdited(msg_num, new_content)
  ELSE \E primary \in PrimaryOutcomes, standard \in StandardOutcomes :
         SendGpt("edit", msg_num, new_content,
                 EditedLog(msg_num, new_content), primary, standard, FALSE)

\* the /edit command of the openai application once the new text is read
RegenerateGpt(msg_num, new_content, role) ==
  IF new_content = "" THEN NotEdited(msg_num, new_content)
  ELSE IF role = "user"
  THEN \E primary \in PrimaryOutcomes, standard \in StandardOutcomes :
         SendGpt("edit", msg_num, new_content,
                 EditedLog(msg_num, new_content), primary, standard, FALSE)
  ELSE EditedOnly(msg_num, new_content, EditedLog(msg_num, new_content),
                  NoExc)

\* ---- /edit of the openai application
handle_command_edit ==
  \E msg_num \in Indices :
    /\ NextTurn
    /\ app = "openai"
    /\ UNCHANGED <<config, loop, clock, agents>>
    /\ IF get_message(current_conversation, msg_num) = None
       THEN NotEdited(msg_num, "")
       ELSE \E new_content \in EditInputs :
              RegenerateGpt(msg_num, new_content,
                            get_message(current_conversation, msg_num).role)

\* ---- the commands the two applications share
\* the command leaves the current conversation open
handle_new_keeps ==
  /\ NextTurn
  /\ current_conversation' = current_conversation
  /\ last' = Last("new", 0, "", None, NoExc, <<>>)
  /\ UNCHANGED <<config, loop, clock, agents, files>>

handle_new ==
  /\ NextTurn
  /\ current_conversation' = None
  /\ last' = Last("new", 0, "", None, NoExc, <<>>)
  /\ UNCHANGED <<config, loop, clock, agents, files>>

handle_load ==
  \E conversation_id \in Ids :
    LET r == load_conversation(files, current_conversation, conversation_id)
    IN /\ NextTurn
       /\ current_conversation' = r.cc
       /\ last' = Last("load", conversation_id, "", r.ret, r.raised, <<>>)
       /\ UNCHANGED <<config, loop, clock, agents, files>>

handle_undo ==
  LET r == delete_last_message(current_conversation, clock)
  IN /\ NextTurn
     /\ current_conversation' = r.cc
     /\ last' = Last("undo", 0, "", r.ret, NoExc, <<>>)
     /\ UNCHANGED <<config, loop, clock, agents, files>>

handle_delete ==
  \E msg_num \in Indices :
    LET r == delete_message(current_conversation, msg_num, clock)
    IN /\ NextTurn
       /\ current_conversation' = r.cc
       /\ last' = Last("delete", msg_num, "", r.ret, NoExc, <<>>)
       /\ UNCHANGED <<config, loop, clock, agents, files>>

handle_agent ==
  \E agent_name \in AgentNames :
    LET r == switch_agent(app, agents_dir, current_agent, agent_name)
    IN /\ NextTurn
       /\ current_agent' = r.current
       /\ last' = Last("agent", 0, agent_name, r.ret, NoExc, <<>>)
       /\ UNCHANGED <<config, loop, clock, current_conversation, files, agents_dir>>

Next ==
  \/ TickIdle
  \/ _send_message
  \/ run_turn
  \/ handle_edit
  \/ handle_command_edit
  \/ handle_new
  \/ handle_load
  \/ handle_undo
  \/ handle_delete
  \/ handle_agent

Spec == Init /\ [][Next]_vars

\* ---- direct calls of the ConversationManager operations
\* what a direct caller of add_message may pass; a system message is only
\* ever put at the head of a log
AddInputs ==
  {<<"user", "Hi", <<>>, <<>>>>,
   <<"assistant", "hello", <<"web_search">>, <<Source1>>>>,
   <<"system", "sys", <<>>, <<>>>>}

EditTexts == {"Bonjour"}

AddMessage ==
  \E a \in AddInputs :
    LET r == add_message(current_conversation, a[1], a[2], a[3], a[4], clock)
    IN /\ get_message_count(current_conversation) < MaxLen
       /\ (a[1] = "system" => get_message_count(current_conversation) = 0)
       /\ current_conversation' = r.cc
       /\ last' = Last("add_message", 0, a[2], None, r.raised, <<>>)
       /\ UNCHANGED <<config, loop, turns, clock, files, agents>>

DeleteLastMessage ==
  LET r == delete_last_message(current_conversation, clock)
  IN /\ current_conversation' = r.cc
     /\ last' = Last("delete_last_message", 0, "", r.ret, NoExc, <<>>)
     /\ UNCHANGED <<config, loop, turns, clock, files, agents>>

DeleteMessage ==
  \E n \in Indices :
    LET r == delete_message(current_conversation, n, clock)
    IN /\ current_conversation' = r.cc
       /\ last' = Last("delete_message", n, "", r.ret, NoExc, <<>>)
       /\ UNCHANGED <<config, loop, turns, clock, files, agents>>

EditMessage ==
  \E n \in Indices, c \in EditTexts :
    LET r == edit_message(current_conversation, n, c, clock)
    IN /\ current_conversation' = r.cc
       /\ last' = Last("edit_message", n, c, r.ret, NoExc, <<>>)
       /\ UNCHANGED <<config, loop, turns, clock, files, agents>>

TruncateHistory ==
  \E n \in Indices :
    LET r == truncate_history(current_conversation, n, clock)
    IN /\ current_conversation' = r.cc
       /\ last' = Last("truncate_history", n, "", r.ret, NoExc, <<>>)
       /\ UNCHANGED <<config, loop, turns, clock, files, agents>>

GetMessage ==
  \E n \in Indices :
    /\ last' = Last("get_message", n, "",
                    get_message(current_conversation, n), NoExc, <<>>)
    /\ UNCHANGED <<config, loop, turns, clock, current_conversation, files, agents>>

CreateNewConversation ==
  \E m \in {Long60} :
    /\ current_conversation' = create_new_conversation(m, clock)
    /\ last' = Last("create_new_conversation", 0, m, None, NoExc, <<>>)
    /\ UNCHANGED <<config, loop, turns, clock, files, agents>>

\* The conversation log driven directly through its operations
InitLog ==
  /\ app = "openrouter"
  /\ use_responses_api = FALSE
  /\ auto_save = FALSE
  /\ clock = 0
  /\ turns = 0
  /\ current_conversation = None
  /\ files = InitFiles
  /\ agents_dir = [f \in AgentFiles |-> None]
  /\ current_agent = None
  /\ loop = LoopStart
  /\ last = Last("init", 0, "", None, NoExc, <<>>)

NextLog ==
  \/ Tick
  \/ CreateNewConversation
  \/ AddMessage
  \/ DeleteLastMessage
  \/ DeleteMessage
  \/ EditMessage
  \/ TruncateHistory
  \/ GetMessage

SpecLog == InitLog /\ [][NextLog]_vars

\* ---- direct calls of the adapters
\* a document of conversations_dir edited by hand: its message has lost
\* the "content" field
EditedDoc ==
  [id |-> -1, title |-> "x", created_at |-> -1, updated_at |-> -1,
   messages |-> <<[role |-> "user", timestamp |-> -1,
                   tools_used |-> <<>>, sources |-> <<>>]>>]

\* a document saved by an earlier session
SavedDoc ==
  [id |-> 0, title |-> "Hi", created_at |-> 0, updated_at |-> 0,
   messages |-> <<[role |-> "user", content |-> "Hi", timestamp |-> 0,
                   tools_used |-> <<>>, sources |-> <<>>],
                  [role |-> "assistant", content |-> "hello", timestamp |-> 0,
                   tools_used |-> <<>>, sources |-> <<>>]>>]

LoadConversation ==
  \E conversation_id \in Ids :
    LET r == load_conversation(files, current_conversation, conversation_id)
    IN /\ current_conversation' = r.cc
       /\ last' = Last("load_conversation", conversation_id, "", r.ret,
                       r.raised, <<>>)
       /\ UNCHANGED <<config, loop, clock, turns, files, agents>>

SwitchAgent ==
  \E agent_name \in AgentNames :
    LET r == switch_agent(app, agents_dir, current_agent, agent_name)
    IN /\ current_agent' = r.current
       /\ last' = Last("switch_agent", 0, agent_name, r.ret, NoExc, <<>>)
       /\ UNCHANGED <<config, loop, clock, turns, current_conversation, files,
                      agents_dir>>

SendWithOpenRouter ==
  \E message \in {"Hi"}, web_search_enabled \in BOOLEAN,
     outcome \in OpenRouterOutcomes :
    LET r == send_with_openrouter(current_agent, current_conversation,
                                  message, web_search_enabled, outcome)
    IN /\ app = "openrouter"
       /\ last' = LastSend("send", 0, message,
                           IF r.raised = NoExc THEN Triple(r) ELSE None,
                           r.raised, r.requests, current_conversation,
                           IF r.raised = NoExc THEN "returned" ELSE "raised")
       /\ UNCHANGED <<config, loop, clock, turns, current_conversation, files,
                      agents>>

SendMessageToGpt ==
  \E message \in {"Hi"}, primary \in PrimaryOutcomes,
     standard \in StandardOutcomes :
    LET r == send_message_to_gpt(use_responses_api, current_agent,
                                 current_conversation, message, primary,
                                 standard)
    IN /\ app = "openai"
       /\ last' = LastSend("send", 0, message,
                           IF r.raised = NoExc THEN Triple(r) ELSE None,
                           r.raised, r.requests, current_conversation,
                           IF r.raised = NoExc THEN "returned" ELSE "raised")
       /\ UNCHANGED <<config, loop, clock, turns, current_conversation, files,
                      agents>>

\* The adapters called on what the managers hold
InitSend ==
  /\ app \in {"openai", "openrouter"}
  /\ use_responses_api \in BOOLEAN
  /\ (app = "openrouter" => use_responses_api = FALSE)
  /\ auto_save = FALSE
  /\ clock = 0
  /\ turns = 0
  /\ current_conversation = None
  /\ files = [i \in Ids |-> IF i = -1 THEN EditedDoc
                            ELSE IF i = 0 THEN SavedDoc ELSE None]
  /\ \E d \in InitAgentDirs :
       /\ agents_dir = AgentManagerInit(app, d).dir
       /\ current_agent = AgentManagerInit(app, d).current
  /\ loop = LoopStart
  /\ last = Last("init", 0, "", None, NoExc, <<>>)

NextSend ==
  \/ LoadConversation
  \/ SwitchAgent
  \/ AddMessage
  \/ SendWithOpenRouter
  \/ SendMessageToGpt

SpecSend == InitSend /\ [][NextSend]_vars

\* ---- the run loop, fed with the lines get_user_input returns
\* the keys of the command table of the openrouter application
cmd_handlers ==
  {"/quit", "/clear", "/new", "/list", "/load", "/undo", "/delete", "/edit",
   "/help", "/agents", "/agent", "/create-agent", "/raw", "/config"}

\* the handler the openrouter application picks for a lowered command: that
\* of its first word, handle_unknown if the word is no key of the table
handler_of(command) ==
  IF Split(command)[1] \in cmd_handlers THEN Split(command)[1] ELSE "unknown"

\* the branch the openai application takes for a lowered command, named as
\* the handler of the same work
branch_of(command) ==
  IF command \in {"/quit", "/clear", "/new", "/list"} THEN command
  ELSE IF StartsWith(command, "/load") THEN "/load"
  ELSE IF command = "/undo" THEN command
  ELSE IF StartsWith(command, "/delete") THEN "/delete"
  ELSE IF StartsWith(command, "/edit") THEN "/edit"
  ELSE IF command \in {"/help", "/agents"} THEN command
  ELSE IF StartsWith(command, "/agent") THEN "/agent"
  ELSE IF command = "/create-agent" THEN command
  ELSE IF StartsWith(command, "/raw") THEN "/raw"
  ELSE "unknown"

\* what a handler that sends nothing leaves
Handled(cc, agent, op, index, text, ret, raised) ==
  /\ current_conversation' = cc
  /\ files' = files
  /\ current_agent' = agent
  /\ agents_dir' = agents_dir
  /\ last' = Last(op, index, text, ret, raised, <<>>)

\* a handler, or a path of one, that only prints
Printed(op) ==
  Handled(current_conversation, current_agent, op, 0, "", None, NoExc)

\* a handler that has made the ConversationManager call of result r
Managed(op, index, r) ==
  Handled(r.cc, current_agent, op, index, "", r.ret, NoExc)

\* handle_load once load_conversation has returned or raised r
Loaded(index, r) ==
  Handled(r.cc, current_agent, "load", index, "", r.ret, r.raised)

\* the /edit of either application on message msg_num
EditMessageNumber(msg_num) ==
  /\ UNCHANGED agents
  /\ IF get_message(current_conversation, msg_num) = None
     THEN NotEdited(msg_num, "")
     ELSE \E input \in EditInputs :
            IF app = "openrouter"
            THEN Regenerate(msg_num, input, NewContent(input))
            ELSE RegenerateGpt(msg_num, input,
                               get_message(current_conversation,
                                           msg_num).role)

\* /load, /delete and /edit once int(parts[1]) is taken (/load takes the
\* word as it is: a word that is no number names no document)
HandleNumber(handler, n) ==
  IF handler = "/load"
  THEN Loaded(n, load_conversation(files, current_conversation, n))
  ELSE IF n = -1 THEN Printed("invalid number")
  ELSE IF handler = "/delete"
  THEN Managed("delete", n, delete_message(current_conversation, n, clock))
  ELSE EditMessageNumber(n)

\* /agent once the name is read
HandleAgent(agent_name, r) ==
  Handled(current_conversation, r.current, "agent", 0, agent_name, r.ret,
          r.raised)

\* the work of the handler named handler on a lowered command of words
\* parts; the handlers left to the last branch only print (the prompt of
\* /create-agent is cancelled)
Handle(handler, parts) ==
  IF handler = "/new"
  THEN Handled(None, current_agent, "new", 0, "", None, NoExc)
  ELSE IF handler = "/undo"
  THEN Managed("undo", 0, delete_last_message(current_conversation, clock))
  ELSE IF handler \in {"/load", "/delete", "/edit", "/agent"} /\ Len(parts) # 2
  THEN Printed("usage")
  ELSE IF handler \in {"/load", "/delete", "/edit"}
  THEN HandleNumber(handler, ParseInt(parts[2]))
  ELSE IF handler = "/agent"
  THEN HandleAgent(parts[2],
                   switch_agent(app, agents_dir, current_agent, parts[2]))
  ELSE Printed(handler)

\* what the pass is given back: False from /quit, True from every other
\* handler that returns, an exception from whatever raised; a pass on a
\* message (handler "") calls no handler
Returned_by(handler, raised) ==
  IF raised # NoExc THEN "raised"
  ELSE IF handler = "" THEN "none"
  ELSE IF handler = "/quit" THEN "False"
  ELSE "True"

\* an exception of the pass ends the loop
KeepsRunning_uncaught(returned) == returned \notin {"False", "raised"}

\* the loop breaks only when handle_command has returned False; the
\* exceptions of a pass are caught and reported
KeepsRunning(returned) == returned # "False"

\* one pass of the loop that has read the input, handled it with handler
\* and is given returned back
Pass(user_input, handler, returned) ==
  loop' = [running |-> KeepsRunning(returned), input |-> user_input,
           handler |-> handler, returned |-> returned]

\* the lines typed
CommandLines ==
  {"/quit", "/QUIT now", "/new", "/undo", "/load", "/load 0", "/load 7",
   "/loadall 0", "/delete 1", "/delete x", "/edit", "/edit 1", "/edit x",
   "/edit2 1",
   "/agent dev", "/agent ghost", "/agentx dev", "/help", "/bogus"}

\* the handler of the running application for a lowered command
Dispatch(command) ==
  IF app = "openrouter" THEN handler_of(command) ELSE branch_of(command)

\* the pass on a command once its handler is picked
Dispatched(user_input, handler, parts) ==
  /\ Handle(handler, parts)
  /\ Pass(user_input, handler, Returned_by(handler, last'.raised))

\* handle_command on a line
handle_command(user_input, command) ==
  Dispatched(user_input, Dispatch(command), Split(command))

\* a pass of the loop on a command line
run_command ==
  \E user_input \in CommandLines :
    /\ loop.running
    /\ NextTurn
    /\ handle_command(user_input, Strip(Lower(user_input)))
    /\ UNCHANGED <<config, clock>>

\* a pass of the loop on a message: the chat turn, during whose backend
\* call the user may press Ctrl-C
run_message ==
  \E user_input \in {"Hi"} :
    /\ loop.running
    /\ NextTurn
    /\ IF app = "openrouter"
       THEN \E outcome \in OpenRouterOutcomes \cup {Interrupts} :
              SendOpenRouter("chat", 0, user_input,
                             WithUserMessage(user_input), user_input, FALSE,
                             outcome, auto_save)
       ELSE \E primary \in PrimaryOutcomes \cup {Interrupts},
               standard \in StandardOutcomes \cup {Interrupts} :
              SendGpt("chat", 0, user_input, WithUserMessage(user_input),
                      primary, standard, auto_save)
    /\ Pass(user_input, "", Returned_by("", last'.raised))
    /\ UNCHANGED <<config, clock, agents>>

\* a pass of the loop on an empty line
run_empty ==
  /\ loop.running
  /\ NextTurn
  /\ Printed("empty")
  /\ Pass("", "", "none")
  /\ UNCHANGED <<config, clock>>

NextRun ==
  \/ TickIdle
  \/ run_command
  \/ run_message
  \/ run_empty

SpecRun == Init /\ [][NextRun]_vars

\* ---- direct calls of the AgentManager operations
RegistryNames == {"assistant", "dev", "Dev Ops", "ghost"}

\* agents_dir when the registry is constructed: what InitAgentDirs lists,
\* or the default agent beside a file ghost.json that is damaged
RegistryDirs ==
  InitAgentDirs
  \cup {[f \in AgentFiles |->
          IF f = "assistant.json" THEN AssistantAgent
          ELSE IF f = "ghost.json" THEN damaged ELSE None] :
        damaged \in {InvalidJson, InvalidUtf8, NotObject, MissingPrompt,
                     ExtraField}}

\* the record of a call of the registry: pre is the directory and the
\* current agent the call started from
LastRegistry(op, name, ret, raised) ==
  [Last(op, 0, name, ret, raised, <<>>)
     EXCEPT !.pre = [dir |-> agents_dir, current |-> current_agent]]

CreateAgent ==
  \E name \in RegistryNames :
    LET r == create_agent(app, agents_dir, name, "p", clock)
    IN /\ agents_dir' = r.dir
       /\ last' = LastRegistry("create_agent", name, r.ret, NoExc)
       /\ UNCHANGED <<config, loop, clock, turns, current_conversation, files,
                      current_agent>>

\* the agents a caller saves: the one of the earlier session, and one whose
\* name differs from it in case only
SavedAgents ==
  {DevAgent, [DevAgent EXCEPT !.name = "Dev", !.description = "Dev"]}

\* save_agent of an agent made by the caller
SaveAgent ==
  \E agent \in SavedAgents :
    /\ agents_dir' = save_agent(app, agents_dir, agent)
    /\ last' = [LastRegistry("save_agent", agent.name, None, NoExc)
                  EXCEPT !.pre = [dir |-> agents_dir,
                                  current |-> current_agent,
                                  agent |-> agent]]
    /\ UNCHANGED <<config, loop, clock, turns, current_conversation, files,
                   current_agent>>

SwitchTo ==
  \E name \in RegistryNames :
    LET r == switch_agent(app, agents_dir, current_agent, name)
    IN /\ current_agent' = r.current
       /\ last' = LastRegistry("switch_agent", name, r.ret, r.raised)
       /\ UNCHANGED <<config, loop, clock, turns, current_conversation, files,
                      agents_dir>>

DeleteAgent ==
  \E name \in RegistryNames :
    LET r == delete_agent(app, agents_dir, current_agent, name)
    IN /\ agents_dir' = r.dir
       /\ current_agent' = r.current
       /\ last' = LastRegistry("delete_agent", name, r.ret, NoExc)
       /\ UNCHANGED <<config, loop, clock, turns, current_conversation, files>>

LoadAgent ==
  \E name \in RegistryNames :
    /\ last' = LastRegistry("load_agent", name,
                            load_agent(app, agents_dir, name),
                            ReadRaised(agents_dir, AgentFile(app, name)))
    /\ UNCHANGED <<config, loop, clock, turns, current_conversation, files,
                   agents>>

ListAgents ==
  LET r == list_agents(agents_dir)
  IN /\ last' = LastRegistry("list_agents", "", r.ret, r.raised)
     /\ UNCHANGED <<config, loop, clock, turns, current_conversation, files,
                    agents>>

InitAgents ==
  /\ app \in {"openai", "openrouter"}
  /\ use_responses_api = FALSE
  /\ auto_save = FALSE
  /\ clock = 0
  /\ turns = 0
  /\ current_conversation = None
  /\ files = InitFiles
  /\ loop = LoopStart
  /\ \E d \in RegistryDirs :
       /\ agents_dir = AgentManagerInit(app, d).dir
       /\ current_agent = AgentManagerInit(app, d).current
       /\ last = [Last("init", 0, "", None, NoExc, <<>>)
                   EXCEPT !.pre = [dir |-> d, current |-> None]]

NextAgents ==
  \/ CreateAgent
  \/ SaveAgent
  \/ SwitchTo
  \/ DeleteAgent
  \/ LoadAgent
  \/ ListAgents

SpecAgents == InitAgents /\ [][NextAgents]_vars

\* ---- direct calls of the AgentManager operations with the name of the
\* default agent and a name that differs from it in case only
DefaultNames == {"assistant", "Assistant"}

CreateDefault ==
  \E name \in DefaultNames :
    LET r == create_agent(app, agents_dir, name, "p", clock)
    IN /\ agents_dir' = r.dir
       /\ last' = LastRegistry("create_agent", name, r.ret, NoExc)
       /\ UNCHANGED <<config, loop, clock, turns, current_conversation, files,
                      current_agent>>

SaveDefault ==
  \E name \in DefaultNames, agent \in {DevAgent} :
    /\ agents_dir' = save_agent(app, agents_dir, [agent EXCEPT !.name = name])
    /\ last' = [LastRegistry("save_agent", name, None, NoExc)
                  EXCEPT !.pre = [dir |-> agents_dir,
                                  current |-> current_agent,
                                  agent |-> [agent EXCEPT !.name = name]]]
    /\ UNCHANGED <<config, loop, clock, turns, current_conversation, files,
                   current_agent>>

SwitchDefault ==
  \E name \in DefaultNames :
    LET r == switch_agent(app, agents_dir, current_agent, name)
    IN /\ current_agent' = r.current
       /\ last' = LastRegistry("switch_agent", name, r.ret, r.raised)
       /\ UNCHANGED <<config, loop, clock, turns, current_conversation, files,
                      agents_dir>>

DeleteDefault ==
  \E name \in DefaultNames :
    LET r == delete_agent(app, agents_dir, current_agent, name)
    IN /\ agents_dir' = r.dir
       /\ current_agent' = r.current
       /\ last' = LastRegistry("delete_agent", name, r.ret, NoExc)
       /\ UNCHANGED <<config, loop, clock, turns, current_conversation, files>>

NextDefault ==
  \/ CreateDefault
  \/ SaveDefault
  \/ SwitchDefault
  \/ DeleteDefault

SpecDefault == InitAgents /\ [][NextDefault]_vars

\* ---- direct calls of the reads of the conversation store
\* a document as save_conversation writes it: that of id 1 is the newest and
\* has no message, the others have the same created_at
StoredDoc(i) ==
  [id |-> i, title |-> "Hi", created_at |-> IF i = 1 THEN 1 ELSE 0,
   updated_at |-> 1,
   messages |-> IF i = 1 THEN <<>>
                ELSE SubSeq(SavedDoc.messages, 1, i + 2)]

\* a JSON object that is no conversation: it has no key "messages"
MissingMessages(i) == [id |-> i, title |-> "Hi", created_at |-> 0]

\* what a file of conversations_dir may hold
StoreKinds(i) ==
  {None, StoredDoc(i), InvalidJson, NotObject, NullDocument,
   MissingMessages(i)}

\* the orders in which glob may yield the files
GlobOrders ==
  {order \in [1..Cardinality(Ids) -> Ids] :
     \A i \in Ids : \E k \in DOMAIN order : order[k] = i}

ListConversations ==
  \E order \in GlobOrders :
    LET r == list_conversations(files, order)
    IN /\ last' = Last("list_conversations", 0, "", r.ret, r.raised, <<>>)
       /\ UNCHANGED <<config, loop, clock, turns, current_conversation, files,
                      agents>>

InitStore ==
  /\ app = "openrouter"
  /\ use_responses_api = FALSE
  /\ auto_save = FALSE
  /\ clock = 0
  /\ turns = 0
  /\ current_conversation = None
  /\ files \in [Ids -> UNION {StoreKinds(i) : i \in Ids}]
  /\ \A i \in Ids : files[i] \in StoreKinds(i)
  /\ agents_dir = [f \in AgentFiles |-> None]
  /\ current_agent = None
  /\ loop = LoopStart
  /\ last = Last("init", 0, "", None, NoExc, <<>>)

NextStore ==
  \/ LoadConversation
  \/ ListConversations

SpecStore == InitStore /\ [][NextStore]_vars

\* ---- direct calls of the three extractors
\* a key that the message does not have
Absent == [t |-> "absent"]

\* the item of a dict or the attribute of an object, none if absent
Item(key, value) == IF value = Absent THEN <<>> ELSE << <<key, value>> >>

\* a dict (kind "obj") or an SDK object (kind "pyobj") with the items given
Wrap(kind, items) == [t |-> kind, o |-> items]

\* a response whose first choice has the message of the items given
WithMessage(kind, message) ==
  Wrap(kind, << <<"choices",
                  JList(<<Wrap(kind, << <<"message", message>> >>)>>)>> >>)

\* a chat-completion response with the content, the tool calls and the
\* annotations given
ChatShaped(kind, content, tool_calls, annotations) ==
  WithMessage(kind, Wrap(kind, Item("content", content)
                               \o Item("tool_calls", tool_calls)
                               \o Item("annotations", annotations)))

Contents == {Absent, JNull, JStr(""), JStr("hello")}

NoItems == {Absent, JNull, JList(<<>>)}

\* the responses that are recognised: those of the backends
Recognised(kind) ==
  IF kind = "obj" THEN {HelloResponse} ELSE {OutputResponse, ChatResponse}

\* values that are no response of a backend, and responses without a
\* message
Malformed(kind) ==
  {JNull, JStr("plain"), JList(<<>>), JList(<<JStr("a")>>), JNum("3"),
   Wrap(kind, <<>>),
   Wrap(kind, << <<"choices", JList(<<>>)>> >>),
   Wrap(kind, << <<"choices", JNull>> >>),
   WithMessage(kind, JNull)}
  \cup (IF kind = "pyobj" THEN {BadOutputResponse} ELSE {})

\* chat-completion responses whose tool calls or annotations are malformed
PartMalformed(kind) ==
  {ChatShaped(kind, JStr("hello"), JNull, Absent),
   ChatShaped(kind, JStr("hello"), JList(<<Wrap(kind, <<>>)>>), Absent),
   ChatShaped(kind, JStr("hello"), Absent,
              JList(<<JObj(<< <<"type", JStr("url_citation")>> >>)>>)),
   ChatShaped(kind, JStr("hello"), Absent, JList(<<JStr("a")>>))}

\* the kind of response the application hands to its extractors: the dict of
\* response.json(), or the object the SDK returns
KindOf(variant) == IF variant = "openrouter" THEN "obj" ELSE "pyobj"

\* the extractor of the running application
ExtractorOf(variant, what, response) ==
  IF variant = "openrouter"
  THEN CASE what = "text" -> extract_text_from_response(response)
         [] what = "tools" -> extract_tools_from_response(response)
         [] what = "sources" -> extract_sources_from_response(response)
  ELSE CASE what = "text" -> extract_text_from_response_openai(response)
         [] what = "tools" -> extract_tools_from_response_openai(response)
         [] what = "sources" -> extract_sources_from_response_openai(response)

\* the record of a call of an extractor: pre is the response, its shape and
\* the content of its message
Extracted(what, shape, content, response) ==
  [Last("extract_" \o what, 0, shape, ExtractorOf(app, what, response),
        NoExc, <<>>)
     EXCEPT !.pre = [response |-> response, content |-> content]]

\* an extractor called on a chat-completion response without tool calls and
\* annotations
ExtractChat(what) ==
  \E content \in Contents, tool_calls \in NoItems, annotations \in NoItems :
    /\ last' = Extracted(what, "chat", content,
                         ChatShaped(KindOf(app), content, tool_calls,
                                    annotations))
    /\ UNCHANGED <<config, loop, clock, turns, current_conversation, files,
                   agents>>

\* an extractor called on another value
ExtractOther(what) ==
  \/ \E response \in Malformed(KindOf(app)) :
       /\ last' = Extracted(what, "malformed", Absent, response)
       /\ UNCHANGED <<config, loop, clock, turns, current_conversation, files,
                      agents>>
  \/ \E response \in PartMalformed(KindOf(app)) :
       /\ last' = Extracted(what, "part malformed", JStr("hello"), response)
       /\ UNCHANGED <<config, loop, clock, turns, current_conversation, files,
                      agents>>
  \/ \E response \in Recognised(KindOf(app)) :
       /\ last' = Extracted(what, "recognised", Absent, response)
       /\ UNCHANGED <<config, loop, clock, turns, current_conversation, files,
                      agents>>

ExtractText == ExtractChat("text") \/ ExtractOther("text")

ExtractTools == ExtractChat("tools") \/ ExtractOther("tools")

ExtractSources == ExtractChat("sources") \/ ExtractOther("sources")

InitNormalize ==
  /\ app \in {"openai", "openrouter"}
  /\ use_responses_api = FALSE
  /\ auto_save = FALSE
  /\ clock = 0
  /\ turns = 0
  /\ current_conversation = None
  /\ files = InitFiles
  /\ agents_dir = [f \in AgentFiles |-> None]
  /\ current_agent = None
  /\ loop = LoopStart
  /\ last = Last("init", 0, "", None, NoExc, <<>>)

NextNormalize ==
  \/ ExtractText
  \/ ExtractTools
  \/ ExtractSources

SpecNormalize == InitNormalize /\ [][NextNormalize]_vars

\* ------------------------------------------------------------------ claims
PreLen == IF Truthy(last.pre) THEN Len(last.pre.messages) ELSE 0

ValidIndex == Truthy(last.pre) /\ last.index \in 1..PreLen

\* add_message applied to each of msgs in order
RECURSIVE Reappend(_, _, _)
Reappend(cc, msgs, now) ==
  IF msgs = <<>> THEN cc
  ELSE Reappend(add_message(cc, Head(msgs).role, Head(msgs).content,
                            Head(msgs).tools_used, Head(msgs).sources,
                            now).cc,
                Tail(msgs), now)

\* C5: delete_message(n) with 1 <= n <= L returns true and leaves L-1
\* messages: 1..n-1 unchanged, and the message now at k (n <= k <= L-1) is
\* the one that was at k+1.
C5_DeleteShiftsDown ==
  (last.op = "delete_message" /\ ValidIndex) =>
    /\ last.ret = TRUE
    /\ Len(current_conversation.messages) = PreLen - 1
    /\ \A k \in 1..(last.index - 1) :
         current_conversation.messages[k] = last.pre.messages[k]
    /\ \A k \in last.index..(PreLen - 1) :
         current_conversation.messages[k] = last.pre.messages[k + 1]

C5_Witness ==
  /\ last.op = "delete_message"
  /\ ValidIndex
  /\ last.index > 1
  /\ last.index < PreLen

\* C6: truncate_history(n) with 1 <= n <= L returns true and keeps exactly
\* messages 1..n in order; re-appending the dropped messages with
\* add_message (same role, content, tools_used, sources) gives back the
\* original sequence, timestamps excepted.
C6_TruncateRoundTrip ==
  (/\ last.op = "truncate_history"
   /\ ValidIndex
   /\ \A k \in 1..PreLen : WellFormedMessage(last.pre.messages[k])) =>
    /\ last.ret = TRUE
    /\ current_conversation.messages = SubSeq(last.pre.messages, 1, last.index)
    /\ StripTimestamps(
         Reappend(current_conversation,
                  SubSeq(last.pre.messages, last.index + 1, PreLen),
                  clock).messages)
       = StripTimestamps(last.pre.messages)

C6_Witness ==
  /\ last.op = "truncate_history"
  /\ ValidIndex
  /\ last.index + 2 <= PreLen
  /\ last.pre.messages[PreLen].sources # <<>>

\* C7: edit_message(n, c) with a valid n returns true, keeps the message
\* count, the role of message n and every other message, and afterwards
\* get_message(n).content = c.
C7_EditInPlace ==
  (last.op = "edit_message" /\ ValidIndex) =>
    /\ last.ret = TRUE
    /\ Len(current_conversation.messages) = PreLen
    /\ \A k \in 1..PreLen :
         k # last.index =>
           current_conversation.messages[k] = last.pre.messages[k]
    /\ current_conversation.messages[last.index].role
         = last.pre.messages[last.index].role
    /\ get_message(current_conversation, last.index).content = last.text

C7_Witness ==
  /\ last.op = "edit_message"
  /\ ValidIndex
  /\ last.index < PreLen
  /\ last.pre.messages[last.index].content # last.text

\* C8: delete_message, edit_message, truncate_history and get_message, given
\* an index outside 1..L or called with no current conversation, return
\* false (None for get_message), raise nothing and leave the conversation
\* and the current-conversation pointer as they were.
C8_InvalidIndexNoEffect ==
  (/\ last.op \in {"delete_message", "edit_message", "truncate_history",
                   "get_message"}
   /\ ~ValidIndex) =>
    /\ IF last.op = "get_message" THEN last.ret = None ELSE last.ret = FALSE
    /\ last.raised = NoExc
    /\ current_conversation = last.pre

C8_Witness ==
  /\ last.op = "delete_message"
  /\ last.index = 0
  /\ PreLen >= 2

\* C9: add_message with no current conversation fails with the
\* no-active-conversation error (ValueError "Aucune conversation active"),
\* appends nothing and leaves the pointer None; with a current conversation
\* it appends exactly one message at the tail and changes no earlier one.
C9_AddMessage ==
  (last.op = "add_message") =>
    IF ~Truthy(last.pre)
    THEN /\ last.raised = Exc("ValueError", "Aucune conversation active")
         /\ current_conversation = None
    ELSE /\ last.raised = NoExc
         /\ Len(current_conversation.messages) = PreLen + 1
         /\ SubSeq(current_conversation.messages, 1, PreLen)
              = last.pre.messages
         /\ current_conversation.messages[PreLen + 1].content = last.text

C9_Witness ==
  /\ last.op = "add_message"
  /\ last.pre = None
  /\ last.raised # NoExc

\* ---- claims about the applications (specification Spec)
Messages == IF Truthy(current_conversation)
            THEN current_conversation.messages ELSE <<>>

FirstChars(t, n) == SubSeq(t, 1, IF Len(t) < n THEN Len(t) ELSE n)

\* the operation made a backend call whose last request was answered
CallAnswered ==
  /\ last.send = "returned"
  /\ last.requests # <<>>
  /\ last.requests[Len(last.requests)].outcome.kind = "ok"

\* the last message of the log is the assistant message made of the result
ResultAppended ==
  /\ Messages # <<>>
  /\ Messages[Len(Messages)].role = "assistant"
  /\ Messages[Len(Messages)].content = last.ret.content
  /\ Messages[Len(Messages)].tools_used = last.ret.tools_used
  /\ Messages[Len(Messages)].sources = last.ret.sources

\* C1: a chat turn made while no conversation is current leaves a current
\* conversation whose title is the first 50 characters of the text and
\* whose message 1 is that text with role user; when the backend call is
\* answered, message 2 is the assistant message made of the normalized
\* reply and the log has exactly two messages.
C1_ChatOpensConversation ==
  (last.op = "chat" /\ ~Truthy(last.pre)) =>
    /\ Truthy(current_conversation)
    /\ current_conversation.title = FirstChars(last.text, 50)
    /\ Len(Messages) >= 1
    /\ Messages[1].role = "user"
    /\ Messages[1].content = last.text
    /\ CallAnswered =>
         /\ Len(Messages) = 2
         /\ ResultAppended
         /\ last.requests[Len(last.requests)].outcome.data = HelloResponse
              => Messages[2].content = "hello"
         /\ last.requests[Len(last.requests)].outcome.data = ChatResponse
              => Messages[2].content = "salut"

\* a first turn longer than 50 characters, answered by the backend
C1_Witness ==
  /\ last.op = "chat"
  /\ ~Truthy(last.pre)
  /\ Len(last.text) > 50
  /\ CallAnswered
  /\ Len(Messages) = 2
  /\ Len(current_conversation.title) = 50

\* every message of the log before the operation has the five fields
PreWellFormed ==
  /\ Truthy(last.pre)
  /\ \A i \in 1..Len(last.pre.messages) :
       WellFormedMessage(last.pre.messages[i])

\* C2: edit n, on a log whose message n has role user, with a non-empty new
\* text t, leaves a log of exactly n+1 messages: messages 1..n-1 as they
\* were, message n with role user and content t, message n+1 a new
\* assistant message.
C2_EditRegenerates ==
  (/\ last.op = "edit"
   /\ PreWellFormed
   /\ last.index \in 1..Len(last.pre.messages)
   /\ last.pre.messages[last.index].role = "user"
   /\ last.text # ""
   /\ ~StartsWith(last.text, "/web")) =>
    /\ Len(Messages) = last.index + 1
    /\ \A i \in 1..(last.index - 1) : Messages[i] = last.pre.messages[i]
    /\ Messages[last.index].role = "user"
    /\ Messages[last.index].content = last.text
    /\ Messages[last.index + 1].role = "assistant"

\* the primary call of the operation was made and failed: the transport
\* raised, or the response could not be normalized
PrimaryFailed ==
  /\ last.requests # <<>>
  /\ last.requests[1].dialect = "responses"
  /\ \/ last.requests[1].outcome.kind = "raise"
     \/ last.requests[1].outcome.data = BadOutputResponse

\* C3: when the primary dialect is preferred and its call fails, the
\* standard call is made next, and if that call succeeds the send returns
\* the standard dialect's normalized text with no tools and no sources;
\* that result, which is no error text, is the one message appended.
C3_FallbackResult ==
  (last.send # "none" /\ use_responses_api /\ PrimaryFailed) =>
    /\ last.send = "returned"
    /\ Len(last.requests) = 2
    /\ last.requests[2].dialect = "chat"
    /\ last.requests[2].outcome.data = ChatResponse =>
         /\ last.ret = [content |-> "salut", tools_used |-> <<>>,
                        sources |-> <<>>]
         /\ ~StartsWith(last.ret.content, "Erreur")
         /\ Len(Messages) = Len(last.at_send.messages) + 1
         /\ ResultAppended

\* a transport failure of the primary call followed by an answered
\* standard call
C3_Witness ==
  /\ use_responses_api
  /\ Len(last.requests) = 2
  /\ last.requests[1].outcome.kind = "raise"
  /\ last.requests[2].outcome.data = ChatResponse
  /\ last.ret.content = "salut"
  /\ ResultAppended

\* the last dialect tried by the operation failed: the request could not
\* be built, the transport raised, or the response could not be normalized
LastDialectFailed ==
  \/ last.requests = <<>>
  \/ last.requests[Len(last.requests)].outcome.kind = "raise"
  \/ last.requests[Len(last.requests)].outcome.data
       \in {NullMessageResponse, EmptyChoicesResponse}

\* C4: a send raises nothing; when the last dialect fails, in building the
\* request, in the transport or in normalizing the response, the send
\* returns an error text with no tools and no sources, and an application
\* that called it appends that text as exactly one assistant message.
C4_SendNeverRaises ==
  last.send # "none" =>
    /\ last.send = "returned"
    /\ last.raised = NoExc
    /\ LastDialectFailed =>
         /\ StartsWith(last.ret.content, "Erreur")
         /\ last.ret.tools_used = <<>>
         /\ last.ret.sources = <<>>
         /\ last.op \in {"chat", "edit"} =>
              /\ Len(Messages) = Len(last.at_send.messages) + 1
              /\ SubSeq(Messages, 1, Len(last.at_send.messages))
                   = last.at_send.messages
              /\ ResultAppended

\* the {role, content} records of the log the adapter was called with
HistoryAtSend ==
  [k \in 1..Len(last.at_send.messages) |->
     [role |-> last.at_send.messages[k].role,
      content |-> last.at_send.messages[k].content]]

\* C10: the message list of a request body is the system prompt of the
\* current agent as a system message if an agent is current, then every
\* message of the conversation at the time of the call in log order, then
\* the new user turn; temperature and max_tokens are those of the current
\* agent, or 0.7 and 2048 when no agent is current.
C10_RequestBody ==
  \A i \in 1..Len(last.requests) :
    last.requests[i].dialect \in {"chat", "openrouter"} =>
      /\ last.requests[i].body.messages =
           (IF current_agent # None
            THEN <<[role |-> "system",
                    content |-> current_agent.system_prompt]>>
            ELSE <<>>)
           \o HistoryAtSend
           \o <<[role |-> "user", content |-> last.text]>>
      /\ last.requests[i].body.temperature =
           IF current_agent # None THEN current_agent.temperature ELSE 7
      /\ last.requests[i].body.max_tokens =
           IF current_agent # None THEN current_agent.max_tokens ELSE 2048

\* a request made for the agent dev with a history of several messages
C10_Witness ==
  /\ last.requests # <<>>
  /\ last.requests[Len(last.requests)].dialect \in {"chat", "openrouter"}
  /\ current_agent = DevAgent
  /\ Len(last.at_send.messages) >= 3

\* the content an edit stores: the text typed, in the openrouter
\* application without its /web prefix
StoredText == IF app = "openrouter" THEN NewContent(last.text) ELSE last.text

C12_WebPlugins ==
  /\ \A i \in 1..Len(last.requests) :
       last.requests[i].dialect = "openrouter" =>
         /\ "plugins" \in DOMAIN last.requests[i].body
              <=> (last.op = "edit" /\ StartsWith(last.text, "/web"))
         /\ "plugins" \in DOMAIN last.requests[i].body
              => last.requests[i].body.plugins = <<[id |-> "web"]>>
  /\ (/\ last.op = "edit"
      /\ app = "openrouter"
      /\ PreWellFormed
      /\ last.index \in 1..Len(last.pre.messages)
      /\ StartsWith(last.text, "/web")
      /\ NewContent(last.text) # "") =>
       /\ Messages[last.index].content = NewContent(last.text)
       /\ Len(last.requests) = 1
       /\ "plugins" \in DOMAIN last.requests[1].body
       /\ last.requests[1].body.messages[
            Len(last.requests[1].body.messages)]
            = [role |-> "user", content |-> NewContent(last.text)]

\* C13: a chat turn that runs to its end with auto-save enabled leaves,
\* under the id of the current conversation, a document equal to the
\* current conversation, whose last two messages are the user message and
\* the assistant message of the turn; with auto-save disabled the turn
\* writes no document.
C13_AutoSave ==
  [][(last'.op = "chat" /\ turns' = turns + 1 /\ last'.send = "returned") =>
       IF auto_save
       THEN /\ files'[current_conversation'.id] = current_conversation'
            /\ Len(current_conversation'.messages) >= 2
            /\ LET m == files'[current_conversation'.id].messages
               IN /\ m[Len(m) - 1].role = "user"
                  /\ m[Len(m) - 1].content = last'.text
                  /\ m[Len(m)].role = "assistant"
                  /\ m[Len(m)].content = last'.ret.content
       ELSE files' = files]_vars

\* the second turn of a conversation has replaced its saved document
C13_Witness ==
  /\ last.op = "chat"
  /\ last.send = "returned"
  /\ auto_save
  /\ Truthy(last.pre)
  /\ Len(Messages) = 4
  /\ files[current_conversation.id] = current_conversation

\* the first whitespace-delimited word, lower-cased, of the last command
FirstWord == Split(Lower(loop.input))[1]

\* C14: dispatching a command line in the openrouter application returns
\* False if the first word of the line, lower-cased, is /quit, and True
\* otherwise: every other handler returns True on every path.
C14_DispatchReturn ==
  (app = "openrouter" /\ loop.handler # "") =>
    /\ loop.returned \in {"True", "False"}
    /\ loop.returned = "False" <=> FirstWord = "/quit"

\* C15: the handler of a command line is the one the command table gives
\* for the first word of the line, lower-cased, and the handler of unknown
\* commands for a word that is no key of the table; a line whose first
\* word is no key changes neither the conversation, nor the current
\* agent, nor a document, nor an agent file.
C15_ExactMatch ==
  [][(turns' = turns + 1 /\ loop'.handler # "") =>
       /\ loop'.handler =
            IF Split(Lower(loop'.input))[1] \in cmd_handlers
            THEN Split(Lower(loop'.input))[1] ELSE "unknown"
       /\ Split(Lower(loop'.input))[1] \notin cmd_handlers =>
            UNCHANGED <<current_conversation, files, agents_dir,
                        current_agent>>]_vars

\* C16: the loop has ended only if the last input was a /quit command:
\* after any other input, whatever failed in handling it, the loop is
\* running.
C16_OnlyQuitEnds ==
  ~loop.running => (loop.input # "" /\ FirstWord = "/quit")

\* a handler has raised on the last input the model reads, and the loop
\* is running
C16_Witness ==
  /\ loop.running
  /\ loop.returned = "raised"
  /\ loop.handler = "/edit"
  /\ turns = MaxTurns

\* C17: when the loop has control again after a chat turn, the last
\* message of the log is the assistant message of the turn: the backend
\* call has completed or failed and its result was appended, whatever the
\* user pressed meanwhile.
C17_CallRunsToEnd ==
  (last.op = "chat" /\ loop.running /\ loop.input = last.text) =>
    /\ Messages # <<>>
    /\ Messages[Len(Messages)].role = "assistant"

C19_SwitchFrame ==
  last.op = "switch_agent" =>
    /\ last.raised = NoExc
    /\ agents_dir = last.pre.dir
    /\ IF load_agent(app, last.pre.dir, last.text) # None
       THEN /\ last.ret = TRUE
            /\ current_agent = load_agent(app, last.pre.dir, last.text)
       ELSE /\ last.ret = FALSE
            /\ current_agent = last.pre.current

\* C20: delete(name), for a name other than assistant under which an
\* agent is stored, returns True and removes the record: load(name)
\* returns none afterwards and the list has no agent of that name.
C20_DeleteStored ==
  (/\ last.op = "delete_agent"
   /\ last.text # "assistant"
   /\ load_agent(app, last.pre.dir, last.text) # None
   /\ load_agent(app, last.pre.dir, last.text).name = last.text) =>
    /\ last.ret = TRUE
    /\ load_agent(app, agents_dir, last.text) = None
    /\ last.text \notin list_agents(agents_dir).ret

\* C21: when delete(name) has removed the record of the agent that was
\* current, the current agent is the default agent assistant; when it has
\* removed the record of another agent, the current agent is unchanged.
C21_DeleteFallsBack ==
  (last.op = "delete_agent" /\ last.ret = TRUE) =>
    IF last.pre.current # None /\ last.pre.current.name = last.text
    THEN current_agent # None /\ current_agent.name = "assistant"
    ELSE current_agent = last.pre.current

\* the agent files of a directory
Records(dir) == {f \in DOMAIN dir : dir[f] # None}

\* the record of a directory under a file name, None if there is none
RecordAt(dir, f) == IF f \in DOMAIN dir THEN dir[f] ELSE None

\* C22: save(agent) of the registry that normalises names writes the record
\* keyed by the name lower-cased with spaces replaced by underscores: the
\* record is the agent, a second save of the same agent changes nothing, at
\* most one record is added, none when the key had a record, and every other
\* record is as it was.
C22_SaveUpsert ==
  (last.op = "save_agent" /\ app = "openrouter") =>
    LET key == FormatName(last.pre.agent.name) \o ".json"
    IN /\ RecordAt(agents_dir, key) = last.pre.agent
       /\ save_agent(app, agents_dir, last.pre.agent) = agents_dir
       /\ Cardinality(Records(agents_dir))
            <= Cardinality(Records(last.pre.dir)) + 1
       /\ RecordAt(last.pre.dir, key) # None
            => Cardinality(Records(agents_dir))
                 = Cardinality(Records(last.pre.dir))
       /\ \A f \in (DOMAIN agents_dir \cup DOMAIN last.pre.dir) \ {key} :
            RecordAt(agents_dir, f) = RecordAt(last.pre.dir, f)

\* the agent Dev was saved over the record of dev, beside another record
C22_Witness ==
  /\ last.op = "save_agent"
  /\ app = "openrouter"
  /\ last.pre.agent.name = "Dev"
  /\ RecordAt(last.pre.dir, "dev.json") = DevAgent
  /\ RecordAt(agents_dir, "dev.json") = last.pre.agent
  /\ RecordAt(agents_dir, "assistant.json") # None

\* C23: load(name) raises nothing and changes neither the current agent nor
\* any record; it returns none when the record is absent, is no JSON text,
\* is no object, lacks a required field or has an unexpected one.
C23_LoadNeverRaises ==
  last.op = "load_agent" =>
    /\ last.raised = NoExc
    /\ agents_dir = last.pre.dir
    /\ current_agent = last.pre.current
    /\ (\/ RecordAt(last.pre.dir, AgentFile(app, last.text)) = None
        \/ RecordAt(last.pre.dir, AgentFile(app, last.text))
             \in {InvalidJson, NotObject, MissingPrompt, ExtraField})
         => last.ret = None

\* C24: the registry constructed on an empty directory has exactly one
\* record, the default agent assistant; constructed on a directory with
\* records, it has the records of before and no other; in both cases the
\* current agent is the default agent assistant.
C24_Construction ==
  last.op = "init" =>
    /\ Records(last.pre.dir) = {} =>
         /\ Records(agents_dir) = {"assistant.json"}
         /\ agents_dir["assistant.json"].name = "assistant"
    /\ Records(last.pre.dir) # {} =>
         \A f \in DOMAIN agents_dir \cup DOMAIN last.pre.dir :
           RecordAt(agents_dir, f) = RecordAt(last.pre.dir, f)
    /\ current_agent # None
    /\ current_agent.name = "assistant"

\* a document that is a conversation: a JSON object with the keys of one
WellFormedDoc(doc) ==
  /\ doc \notin {None, InvalidJson, NotObject, NullDocument}
  /\ SummaryKeys \subseteq DOMAIN doc

\* C25: load(id) of the conversation log raises nothing; it returns none when
\* the document is absent, is no JSON text or is no conversation object, and
\* otherwise returns the stored conversation and makes it current.
C25_LoadNotFound ==
  last.op = "load_conversation" =>
    /\ last.raised = NoExc
    /\ IF WellFormedDoc(files[last.index])
       THEN /\ last.ret = files[last.index]
            /\ current_conversation = files[last.index]
       ELSE last.ret = None

\* the well-formed documents of the store
WellFormedIds == {i \in Ids : WellFormedDoc(files[i])}

\* C26: list() raises nothing and returns one summary per well-formed
\* document and no other, each with the id, title and created_at of its
\* document and the number of its messages, ordered by created_at descending.
C26_ListSkipsMalformed ==
  last.op = "list_conversations" =>
    /\ last.raised = NoExc
    /\ Len(last.ret) = Cardinality(WellFormedIds)
    /\ \A i \in WellFormedIds :
         \E k \in 1..Len(last.ret) :
           last.ret[k] = [id |-> i, title |-> files[i].title,
                          created_at |-> files[i].created_at,
                          message_count |-> Len(files[i].messages)]
    /\ \A k \in 1..(Len(last.ret) - 1) :
         last.ret[k].created_at >= last.ret[k + 1].created_at

\* an extractor has run
ExtractOps == {"extract_text", "extract_tools", "extract_sources"}

\* C27: on a chat-completion response whose message has no tool calls and
\* no annotations (absent, empty or null) no extractor raises, the text is
\* the content of the message, the empty string when the content is empty,
\* null or absent, and the tools and the sources are empty.
C27_ChatTriple ==
  (last.op \in ExtractOps /\ last.text = "chat") =>
    /\ last.ret.exc = NoExc
    /\ IF last.op = "extract_text"
       THEN last.ret.v = (IF last.pre.content \in {Absent, JNull} THEN ""
                          ELSE last.pre.content.s)
       ELSE last.ret.v = <<>>

\* C28: no extractor raises; on a value that is no response or has no
\* message the text is the value itself when it is a str and str(value)
\* otherwise; on such a value, and on a response whose tool calls or
\* annotations are null or lack a field, the tools and the sources are
\* empty.
C28_NeverRaises ==
  last.op \in ExtractOps =>
    /\ last.ret.exc = NoExc
    /\ (last.text = "malformed" /\ last.op = "extract_text")
         => last.ret.v = Str(last.pre.response)
    /\ (last.text \in {"malformed", "part malformed"}
        /\ last.op # "extract_text")
         => last.ret.v = <<>>

\* the chat turn that follows the command new sends a log that holds the
\* new user message only, in a conversation made at that moment, and each of
\* its chat requests has, after the system message, that log and the new
\* turn only
FreshLogSent ==
  /\ last'.at_send.id = clock'
  /\ Len(last'.at_send.messages) = 1
  /\ last'.at_send.messages[1].role = "user"
  /\ last'.at_send.messages[1].content = last'.text
  /\ \A i \in 1..Len(last'.requests) :
       last'.requests[i].dialect \in {"chat", "openrouter"} =>
         Len(last'.requests[i].body.messages)
           = (IF current_agent # None THEN 1 ELSE 0) + 2

\* C29 as claimed: the command new sets the current conversation to none and
\* writes no document; the chat turn that follows sends a fresh log and
\* leaves every document stored before it as it was.
C29_NewStartsFresh ==
  [][/\ last'.op = "new" => (current_conversation' = None /\ files' = files)
     /\ (last.op = "new" /\ last'.op = "chat") =>
          /\ FreshLogSent
          /\ \A i \in Ids : files[i] # None => files'[i] = files[i]]_vars

\* C29: the command new sets the current conversation to none and writes no
\* document; the chat turn that follows sends a fresh log and leaves as it
\* was every document stored under another id than that of the new
\* conversation, which is the second of its creation.
C29_NewStartsFreshId ==
  [][/\ last'.op = "new" => (current_conversation' = None /\ files' = files)
     /\ (last.op = "new" /\ last'.op = "chat") =>
          /\ FreshLogSent
          /\ \A i \in Ids :
               (files[i] # None /\ i # last'.at_send.id)
                 => files'[i] = files[i]]_vars

\* a chat turn on no current conversation was answered and saved while the
\* document of an earlier conversation is stored under another id
C29_Witness ==
  /\ last.op = "chat"
  /\ ~Truthy(last.pre)
  /\ last.send = "returned"
  /\ auto_save
  /\ Len(Messages) = 2
  /\ files[current_conversation.id] = current_conversation
  /\ \E i \in Ids : i # current_conversation.id /\ files[i] # None

\* the requests of the last send made in a dialect
RequestsIn(dialect) ==
  {i \in 1..Len(last.requests) : last.requests[i].dialect = dialect}

\* C30: a send makes at most one request in the primary dialect and at most
\* one in the standard dialect; the standard request comes after a primary
\* request only when that request failed; no primary request is made when
\* the primary dialect is not preferred; the HTTP-POST adapter makes exactly
\* one request.
C30_SendRequests ==
  last.send # "none" =>
    /\ Cardinality(RequestsIn("responses")) <= 1
    /\ Cardinality(RequestsIn("chat")) <= 1
    /\ \A i \in RequestsIn("chat"), j \in RequestsIn("responses") :
         /\ j < i
         /\ PrimaryFailed
    /\ ~use_responses_api => RequestsIn("responses") = {}
    /\ app = "openrouter" =>
         /\ Len(last.requests) = 1
         /\ last.requests[1].dialect = "openrouter"
    /\ app = "openai" => RequestsIn("openrouter") = {}

\* C31: in every request sent for a chat turn or for the regeneration of an
\* edit, the new or edited user turn is sent once, as the last message: the
\* message list is the system message (if an agent is current) followed by
\* the log at the time of the call, whose last message is that turn, and
\* the turn is not added a second time after it.
C31_TurnSentOnce ==
  \A i \in 1..Len(last.requests) :
    last.requests[i].dialect \in {"chat", "openrouter"} =>
      LET sent == last.requests[i].body.messages
      IN  /\ sent[Len(sent)] = [role |-> "user", content |-> last.text]
          /\ sent = (IF current_agent # None
                     THEN <<[role |-> "system",
                             content |-> current_agent.system_prompt]>>
                     ELSE <<>>)
                    \o HistoryAtSend

\* C32: with auto-save enabled, after an undo, a delete or an edit that
\* changed the messages of the current conversation, the document stored
\* under the id of the conversation equals the conversation in memory.
C32_CommandsSaved ==
  (/\ auto_save
   /\ last.op \in {"undo", "delete", "edit"}
   /\ Truthy(current_conversation)
   /\ Truthy(last.pre)
   /\ current_conversation.messages # last.pre.messages)
  => files[current_conversation.id] = current_conversation

\* C33: after any sequence of registry operations the current agent, when
\* there is one, has a record in the directory under the file of its name;
\* in particular a delete that returns true does not leave as current an
\* agent whose record it removed.
C33_CurrentHasRecord ==
  current_agent # None =>
    RecordIn(agents_dir, AgentFile(app, current_agent.name))

\* C34: the record of the default agent is changed only by saving an agent
\* whose name is exactly "assistant": after create_agent or save_agent
\* under any other name, load("assistant") returns what it returned before
\* the call.
C34_DefaultRecordKept ==
  (last.op \in {"create_agent", "save_agent"} /\ last.text # "assistant") =>
    load_agent(app, agents_dir, "assistant")
      = load_agent(app, last.pre.dir, "assistant")

\* C35: a load(id) that does not succeed, because it returns none or because
\* it raises on the document, leaves the current conversation, pointer and
\* messages, as it was before the call.
C35_FailedLoadKeeps ==
  (last.op = "load_conversation"
   /\ (last.raised # NoExc \/ last.ret = None)) =>
    current_conversation = last.pre

\* the words of the last command line
LastParts == Split(Strip(Lower(loop.input)))

\* the last pass was an /edit whose input was rejected: wrong number of
\* words, an index that is no number, an index with no message, an empty
\* new text, or in the openrouter application a new text that is only the
\* /web marker
EditRejected ==
  /\ loop.handler = "/edit"
  /\ \/ Len(LastParts) # 2
     \/ ParseInt(LastParts[2]) = -1
     \/ get_message(last.pre, ParseInt(LastParts[2])) = None
     \/ last.text = ""
     \/ app = "openrouter" /\ Strip(last.text) = "/web"

\* C36: an /edit whose input is rejected makes no backend request and
\* leaves the conversation, the content of message n and the messages
\* after it included, as it was.
C36_RejectedEdit ==
  EditRejected =>
    /\ last.requests = <<>>
    /\ last.raised = NoExc
    /\ current_conversation = last.pre

\* the new text "/web" was refused on a conversation of several messages
C36_Witness ==
  /\ EditRejected
  /\ last.op = "edit"
  /\ last.text = "/web"
  /\ Truthy(current_conversation)
  /\ Len(current_conversation.messages) >= 2
  /\ last.index = 1

\* the operations of the log that change a conversation
LogMutations ==
  {"add_message", "delete_last_message", "delete_message", "edit_message",
   "truncate_history"}

\* the last operation did what it was called for: add_message raised
\* nothing, the others returned True
Succeeded ==
  IF last.op = "add_message" THEN last.raised = NoExc ELSE last.ret = TRUE

\* C37: an operation of the log that succeeds keeps the id and created_at of
\* the conversation and sets its updated_at to the clock value of the
\* operation, which is not below the updated_at before; an operation that
\* does not succeed leaves the conversation, updated_at included, as it was.
C37_Timestamps ==
  [][(clock' = clock /\ last'.op \in LogMutations) =>
       IF Succeeded'
       THEN /\ Truthy(current_conversation)
            /\ current_conversation'.id = current_conversation.id
            /\ current_conversation'.created_at
                 = current_conversation.created_at
            /\ current_conversation'.updated_at = clock'
            /\ current_conversation'.updated_at
                 >= current_conversation.updated_at
       ELSE current_conversation' = current_conversation]_vars

\* the last message of a conversation created at 0 was deleted at 1
C37_Witness ==
  /\ last.op = "delete_last_message"
  /\ last.ret = TRUE
  /\ last.pre.updated_at = 0
  /\ current_conversation.created_at = 0
  /\ current_conversation.updated_at = 1
  /\ clock = 1

\* C38: a conversation created in the second in which an earlier one was
\* created and saved receives the id of the earlier one; when it is saved
\* its document replaces that of the earlier conversation: load of the id
\* returns the new conversation, and the stored messages are those of the
\* new conversation only.
C38_SameSecondOverwrites ==
  [][(/\ ~Truthy(current_conversation)
      /\ files[clock] # None
      /\ auto_save
      /\ last'.op = "chat"
      /\ last'.send = "returned"
      /\ Truthy(current_conversation')) =>
       /\ current_conversation'.id = files[clock].id
       /\ files'[current_conversation'.id] = current_conversation'
       /\ load_conversation(files', None, current_conversation'.id).ret
            = current_conversation'
       /\ Len(files'[clock].messages) = 2
       /\ files'[clock].messages[1].content = last'.text
       /\ \A i \in Ids : i # clock => files'[i] = files[i]]_vars

\* the second conversation of the second 0 was saved over the first: three
\* turns have passed at clock 0, the last of which opened a conversation
\* whose document, the only one stored, holds the two messages of the turn
C38_Witness ==
  /\ last.op = "chat"
  /\ ~Truthy(last.pre)
  /\ last.send = "returned"
  /\ auto_save
  /\ clock = 0
  /\ turns = 3
  /\ last.text = "Hi"
  /\ files[0] = current_conversation
  /\ Len(files[0].messages) = 2
  /\ files[0].title = "Hi"
  /\ \A i \in Ids : i # 0 => files[i] = None
====
